---------------------------- MODULE Spec2Model ----------------------------
(***************************************************************************)
(* Verification model of the precos-diarios dashboard:                     *)
(*   - the data loading hook useData and the screen App renders from it,   *)
(*   - the forecast hook useForecast (static JSON) driven by App,          *)
(*   - the client side filtering and aggregation (useFilteredData,         *)
(*     useAggregations),                                                   *)
(*   - the CSV export of ProductTable,                                     *)
(*   - the access-control Apps Script (doGet, logAttempt).                 *)
(* Each subsystem has its own specification over its own variables; the    *)
(* variables of the other subsystems stay at their idle values.            *)
(***************************************************************************)
EXTENDS Integers, Sequences, FiniteSets, TLC

VARIABLES
    \* ---- useData / App (src/dashboard/src/hooks/useData.js, App.jsx)
    data,         \* useState(null): the loaded documents or NullData
    loading,      \* useState(true)
    error,        \* useState(null): NoError or the message of the caught error
    req,          \* per file: the state of its fetch(...).then(...) promise
    reqCount,     \* per file: number of fetch calls issued in this mount
    allSettled,   \* state of the Promise.all awaited by loadData
    effectRan,    \* the mount effect (deps []) has run in this mount
    mounts,       \* number of page loads so far (reload = new mount)
    \* ---- useForecast (static JSON) and App's forecast controls
    forecastProduct,  \* App: useState(null), the selected product
    forecastHorizon,  \* App: useState(90)
    fData,            \* useForecast: useState(null)
    fLoading,         \* useForecast: useState(false)
    fError,           \* useForecast: useState(null)
    inflight,         \* the fetchForecast calls awaiting their response
    fetchSeq,         \* number of fetchForecast requests issued so far
    fDone,            \* the call that completed last and what its fetch gave
    refetchCalls,     \* number of calls of fetchForecast (refetch) so far
    \* ---- App's filter state, useFilteredData and useAggregations
    detailed,         \* data?.detailed: not loaded, or the record list
    filters,          \* App: useState({anoMin, anoMax, categoria, produto})
    filteredData,     \* useMemo result of useFilteredData(data, filters)
    aggregations,     \* useMemo result of useAggregations(filteredData, data)
    \* ---- ProductTable: the displayed rows and the CSV export
    tableRows,        \* ProductTable: filteredData (the rows shown)
    showCategory,     \* ProductTable prop
    exported,         \* exportCSV has run
    csv,              \* the text handed to the Blob (a list of characters)
    \* ---- access-control Apps Script
    accessSheet,      \* the "access" sheet: missing, or header and rows
    logSheet,         \* the "log" sheet: missing, or header and rows
    calls,            \* number of doGet calls served
    lastCall,         \* the last call: parameters, clock, outcome, response
    \* ---- ProductTable: the ranking controls
    tableData,        \* ProductTable prop data (the list of products)
    search,           \* useState('')
    sortBy,           \* useState('registros')
    sortOrder,        \* useState('desc')
    displayLimit,     \* useState(limit)
    \* ---- useFilteredTimeSeries
    timeSeries,       \* useMemo result of useFilteredTimeSeries(filteredData)
    \* ---- LatestPrices (records = filteredData)
    latestSearch,     \* useState('')
    latestSortBy,     \* useState('media')
    latestSortOrder,  \* useState('desc')
    latestPeriod,     \* useMemo: the reference period, <<>> for null
    latestRows,       \* useMemo rows
    \* ---- ForecastTable
    modelos,          \* ForecastTable prop modelos
    tableSource,      \* which of the two ForecastTable sources is built
    forecasts         \* the rows of the table body

dataVars == <<data, loading, error, req, reqCount, allSettled, effectRan, mounts>>
fcVars == <<forecastProduct, forecastHorizon, fData, fLoading, fError, inflight,
            fetchSeq, fDone, refetchCalls>>

filterVars == <<detailed, filters, filteredData>>
aggVars == <<aggregations>>

csvVars == <<tableRows, showCategory, exported, csv>>

accessVars == <<accessSheet, logSheet, calls, lastCall>>

rankVars == <<tableData, search, sortBy, sortOrder, displayLimit>>

seriesVars == <<timeSeries>>

latestVars == <<latestSearch, latestSortBy, latestSortOrder, latestPeriod,
                latestRows>>

mergeVars == <<modelos, tableSource, forecasts>>

viewVars == <<rankVars, seriesVars, latestVars, mergeVars>>

vars == <<dataVars, fcVars, filterVars, aggVars, csvVars, accessVars, viewVars>>

(***************************************************************************)
(*                       useData: loading the four files                   *)
(***************************************************************************)
MaxMounts == 2
MaxRequests == 2

NoProduct == "<null>"

\* Values of the variables of a subsystem that a specification does not run.
IdleData ==
    /\ data = [null |-> TRUE]
    /\ loading = TRUE
    /\ error = "<null>"
    /\ req = <<>>
    /\ reqCount = <<>>
    /\ allSettled = "idle"
    /\ effectRan = FALSE
    /\ mounts = 0

IdleForecast ==
    /\ forecastProduct = NoProduct
    /\ forecastHorizon = 0
    /\ fData = [null |-> TRUE]
    /\ fLoading = FALSE
    /\ fError = "<null>"
    /\ inflight = {}
    /\ fetchSeq = 0
    /\ fDone = [id |-> 0]
    /\ refetchCalls = 0

IdleFilter ==
    /\ detailed = [loaded |-> FALSE]
    /\ filters = <<>>
    /\ filteredData = <<>>

IdleAgg == aggregations = [computed |-> FALSE]

IdleCsv ==
    /\ tableRows = <<>>
    /\ showCategory = FALSE
    /\ exported = FALSE
    /\ csv = <<>>

IdleAccess ==
    /\ accessSheet = [exists |-> FALSE]
    /\ logSheet = [exists |-> FALSE]
    /\ calls = 0
    /\ lastCall = [served |-> FALSE]

IdleRank ==
    /\ tableData = <<>>
    /\ search = <<>>
    /\ sortBy = "registros"
    /\ sortOrder = "desc"
    /\ displayLimit = 0

IdleSeries == timeSeries = [computed |-> FALSE]

IdleLatest ==
    /\ latestSearch = <<>>
    /\ latestSortBy = "media"
    /\ latestSortOrder = "desc"
    /\ latestPeriod = <<>>
    /\ latestRows = <<>>

IdleMerge ==
    /\ modelos = <<>>
    /\ tableSource = ""
    /\ forecasts = [rendered |-> FALSE]

IdleViews == IdleRank /\ IdleSeries /\ IdleLatest /\ IdleMerge

KeepRank == UNCHANGED rankVars
KeepSeries == UNCHANGED seriesVars
KeepLatest == UNCHANGED latestVars
KeepMerge == UNCHANGED mergeVars
KeepViews == UNCHANGED viewVars
KeepData == UNCHANGED dataVars
KeepAccess == UNCHANGED accessVars
KeepCsv == UNCHANGED csvVars
KeepForecast == UNCHANGED fcVars
KeepFilter == UNCHANGED filterVars
KeepAgg == UNCHANGED aggVars

Files == {"aggregated", "detailed", "timeseries", "filters"}

NullData == [null |-> TRUE]
NoError == "<null>"

\* JS truthiness of the error state: null and '' are falsy.
Truthy(s) == s # NoError /\ s # ""

\* The body a file answers with when the request succeeds.
Json(f) == [file |-> f]

\* normalizeFilters(filters, aggregated, detailed): the filter options derived
\* from the three documents (kept symbolic here).
normalizeFilters(filtersJson, aggregatedJson, detailedJson) ==
    [normalized |-> TRUE, from |-> <<filtersJson, aggregatedJson, detailedJson>>]

ReqIdle == [st |-> "idle", msg |-> ""]
ReqPending == [st |-> "pending", msg |-> ""]

InitData ==
    /\ data = NullData
    /\ loading = TRUE
    /\ error = NoError
    /\ req = [f \in Files |-> ReqIdle]
    /\ reqCount = [f \in Files |-> 0]
    /\ allSettled = "idle"
    /\ effectRan = FALSE
    /\ mounts = 1

\* useEffect(() => { loadData() }, []): the effect runs once per mount.
EffectRunsEveryRender == TRUE
EffectShouldRun == ~effectRan

\* loadData up to the await: setLoading(true), setError(null) and the four
\* fetch calls handed to Promise.all.
RunEffect ==
    /\ EffectShouldRun
    /\ \A f \in Files : reqCount[f] < MaxRequests
    /\ effectRan' = TRUE
    /\ loading' = TRUE
    /\ error' = NoError
    /\ req' = [f \in Files |-> ReqPending]
    /\ reqCount' = [f \in Files |-> reqCount[f] + 1]
    /\ allSettled' = "pending"
    /\ UNCHANGED <<data, mounts>>
    /\ KeepForecast /\ KeepFilter /\ KeepAgg /\ KeepCsv /\ KeepAccess /\ KeepViews

\* catch (err) { setError(err.message) } finally { setLoading(false) }
CatchIgnoringError(msg) == [data |-> data, error |-> NoError, loading |-> FALSE]
CatchLoadError(msg) == [data |-> data, error |-> msg, loading |-> FALSE]

\* all four promises fulfilled: normalizeFilters, setData, finally setLoading(false)
LoadSucceeded ==
    [data |-> [aggregated |-> Json("aggregated"),
               detailed |-> Json("detailed"),
               timeseries |-> Json("timeseries"),
               filters |-> normalizeFilters(Json("filters"), Json("aggregated"),
                                            Json("detailed"))],
     error |-> error, loading |-> FALSE]

\* One of the promises handed to Promise.all rejects with message msg.
\* Promise.all rejects on the first rejection; later ones are ignored.
Rejects(f, msg) ==
    /\ req' = [req EXCEPT ![f] = [st |-> "failed", msg |-> msg]]
    /\ IF allSettled = "pending"
       THEN /\ allSettled' = "rejected"
            /\ data' = CatchLoadError(msg).data
            /\ error' = CatchLoadError(msg).error
            /\ loading' = CatchLoadError(msg).loading
       ELSE UNCHANGED <<allSettled, data, error, loading>>
    /\ UNCHANGED <<reqCount, effectRan, mounts>>

\* One of the promises fulfils; Promise.all fulfils when all four have.
Fulfils(f) ==
    /\ req' = [req EXCEPT ![f] = [st |-> "fulfilled", msg |-> ""]]
    /\ IF allSettled = "pending" /\ \A g \in Files \ {f} : req[g].st = "fulfilled"
       THEN /\ allSettled' = "fulfilled"
            /\ data' = LoadSucceeded.data
            /\ error' = LoadSucceeded.error
            /\ loading' = LoadSucceeded.loading
       ELSE UNCHANGED <<allSettled, data, error, loading>>
    /\ UNCHANGED <<reqCount, effectRan, mounts>>

\* fetch(url) settles: a network failure rejects it, otherwise the then
\* callback checks r.ok and either throws or starts r.json().
FetchSettles(f, outcome) ==
    /\ req[f].st = "pending"
    /\ CASE outcome = "network_error" -> Rejects(f, "Failed to fetch")
         [] outcome = "http_error" -> Rejects(f, "Failed to load " \o f \o ".json")
         [] outcome = "ok" ->
              /\ req' = [req EXCEPT ![f] = [st |-> "parsing", msg |-> ""]]
              /\ UNCHANGED <<data, loading, error, reqCount, allSettled,
                             effectRan, mounts>>
    /\ KeepForecast /\ KeepFilter /\ KeepAgg /\ KeepCsv /\ KeepAccess /\ KeepViews

\* r.json() settles: the body parses or a SyntaxError is thrown.
JsonSettles(f, parses) ==
    /\ req[f].st = "parsing"
    /\ IF parses THEN Fulfils(f) ELSE Rejects(f, "Unexpected token in JSON")
    /\ KeepForecast /\ KeepFilter /\ KeepAgg /\ KeepCsv /\ KeepAccess /\ KeepViews

\* What App renders from the hook's state (App.jsx 67-90).
AppScreen ==
    IF loading THEN "loading"
    ELSE IF Truthy(error) THEN "error"
    ELSE "dashboard"

\* 'Tentar novamente': window.location.reload() starts a fresh page.
Reload ==
    /\ AppScreen = "error"
    /\ mounts < MaxMounts
    /\ data' = NullData
    /\ loading' = TRUE
    /\ error' = NoError
    /\ req' = [f \in Files |-> ReqIdle]
    /\ reqCount' = [f \in Files |-> 0]
    /\ allSettled' = "idle"
    /\ effectRan' = FALSE
    /\ mounts' = mounts + 1
    /\ KeepForecast /\ KeepFilter /\ KeepAgg /\ KeepCsv /\ KeepAccess /\ KeepViews

FetchStep == \E f \in Files : \E o \in {"ok", "http_error", "network_error"} :
                 FetchSettles(f, o)
JsonStep == \E f \in Files : \E p \in BOOLEAN : JsonSettles(f, p)

NextData ==
    \/ RunEffect
    \/ FetchStep
    \/ JsonStep
    \/ Reload

InitDataSpec == InitData /\ IdleForecast /\ IdleFilter /\ IdleAgg /\ IdleCsv /\ IdleAccess
    /\ IdleViews

SpecData == InitDataSpec /\ [][NextData]_vars

\* C1: the load is all-or-nothing. Once loading has ended, if any of the four
\* requests failed (non-ok status, rejected fetch, unparsable body) then data
\* is still null, error is the message of a failed request and App shows the
\* "Erro ao carregar dados" screen, whatever the other requests did.
C1_AllOrNothing ==
    (~loading /\ \E f \in Files : req[f].st = "failed") =>
        /\ data = NullData
        /\ error \in {req[f].msg : f \in {g \in Files : req[g].st = "failed"}}
        /\ AppScreen = "error"

\* One request failed after the other three had succeeded.
C1_Witness ==
    /\ ~loading
    /\ req["filters"].st = "failed"
    /\ \A f \in Files \ {"filters"} : req[f].st = "fulfilled"
    /\ allSettled = "rejected"

\* C2: no retry. Each file is requested at most once per mount, and after a
\* failed load (loading ended with an error) the hook issues no further
\* request and keeps the error for as long as the page is not reloaded.
C2_NoRetry ==
    [][ /\ \A f \in Files : reqCount'[f] <= 1
        /\ (mounts' = mounts /\ ~loading /\ Truthy(error)) =>
               (error' = error /\ reqCount' = reqCount /\ ~loading') ]_vars

\* A second mount (after 'Tentar novamente') whose load failed as well, with
\* every request settled.
C2_Witness ==
    /\ mounts = 2
    /\ ~loading
    /\ Truthy(error)
    /\ \A f \in Files : reqCount[f] = 1 /\ req[f].st \in {"failed", "fulfilled"}

(***************************************************************************)
(*            useForecast (static JSON) and App's forecast controls        *)
(***************************************************************************)
MaxFetches == 2

Products == {"soja", "milho"}
Horizons == {30, 60, 90, 180, 365}
DefaultHorizon == 90
Models == {"arima", "prophet"}

\* Number of forecast points the file of product p holds for model k.
FilePoints(p, k) ==
    CASE p = "soja" /\ k = "arima" -> 13
      [] p = "soja" /\ k = "prophet" -> 2
      [] p = "milho" /\ k = "arima" -> 4
      [] OTHER -> 0

\* The JSON document data/forecasts/<slug>.json of product p.
ForecastFile(p) ==
    [success |-> TRUE,
     produto |-> p,
     modelos |-> [k \in Models |->
                    [nome |-> k,
                     previsoes |-> [i \in 1..FilePoints(p, k) |->
                                      [data |-> i, previsto |-> 100 + i]]]]]

\* Math.max(1, Math.round(horizonte / 30))
Months(horizonte) ==
    LET rounded == (2 * horizonte + 30) \div 60
    IN IF rounded > 1 THEN rounded ELSE 1

\* slice(-n) in place of slice(0, n): the last n points
SliceLast(seq, n) ==
    SubSeq(seq, IF n < Len(seq) THEN Len(seq) - n + 1 ELSE 1, Len(seq))
\* Array.prototype.slice(0, n)
SliceTo(seq, n) == SubSeq(seq, 1, IF n < Len(seq) THEN n ELSE Len(seq))

\* Trim forecasts to match selected horizon (months)
Trimmed(result, horizonte) ==
    [result EXCEPT !.modelos =
        [k \in DOMAIN result.modelos |->
            [result.modelos[k] EXCEPT
                !.previsoes = SliceTo(result.modelos[k].previsoes,
                                      Months(horizonte))]]]

InitForecast ==
    /\ forecastProduct = NoProduct
    /\ forecastHorizon = DefaultHorizon
    /\ fData = NullData
    /\ fLoading = FALSE
    /\ fError = NoError
    /\ inflight = {}
    /\ fetchSeq = 0
    /\ fDone = [id |-> 0]
    /\ refetchCalls = 0

\* The hook without the effect on [produto]: data and error stay.
keepOnProductChange == [data |-> fData, error |-> fError]
\* useEffect(() => { setData(null); setError(null) }, [produto])
resetOnProductChange == [data |-> NullData, error |-> NoError]

\* <select onChange={(e) => setForecastProduct(e.target.value || null)}> and
\* the hook's effect on [produto]: setData(null); setError(null).
SelectProduct(p) ==
    /\ p # forecastProduct
    /\ forecastProduct' = p
    /\ fData' = resetOnProductChange.data
    /\ fError' = resetOnProductChange.error
    /\ UNCHANGED <<forecastHorizon, fLoading, inflight, fetchSeq, fDone,
                   refetchCalls>>
    /\ KeepData /\ KeepFilter /\ KeepAgg /\ KeepCsv /\ KeepAccess /\ KeepViews

\* <select onChange={(e) => setForecastHorizon(parseInt(e.target.value))}>
SelectHorizon(h) ==
    /\ h # forecastHorizon
    /\ forecastHorizon' = h
    /\ UNCHANGED <<forecastProduct, fData, fLoading, fError, inflight, fetchSeq,
                   fDone, refetchCalls>>
    /\ KeepData /\ KeepFilter /\ KeepAgg /\ KeepCsv /\ KeepAccess /\ KeepViews

\* The 'Gerar previsoes' button: disabled={!forecastProduct || forecastLoading}
GerarEnabled == forecastProduct # NoProduct /\ ~fLoading

\* fetchForecast up to its first await: the closure holds the produto and
\* horizonte of the current render.
fetchForecast ==
    /\ IF forecastProduct = NoProduct
       THEN /\ fData' = NullData
            /\ UNCHANGED <<fLoading, fError, inflight, fetchSeq>>
       ELSE /\ fLoading' = TRUE
            /\ fError' = NoError
            /\ fetchSeq' = fetchSeq + 1
            /\ inflight' = inflight \cup
                  {[id |-> fetchSeq + 1, produto |-> forecastProduct,
                    horizonte |-> forecastHorizon]}
            /\ UNCHANGED fData
    /\ refetchCalls' = refetchCalls + 1
    /\ UNCHANGED <<forecastProduct, forecastHorizon, fDone>>

\* onClick={refetchForecast} on the enabled button.
ClickGerar ==
    /\ GerarEnabled
    /\ refetchCalls < MaxFetches
    /\ fetchForecast
    /\ KeepData /\ KeepFilter /\ KeepAgg /\ KeepCsv /\ KeepAccess /\ KeepViews

\* The refetch the hook returns, called by a consumer without the button's
\* guard (return { data, loading, error, refetch: fetchForecast }).
Refetch ==
    /\ refetchCalls < MaxFetches
    /\ fetchForecast
    /\ KeepData /\ KeepFilter /\ KeepAgg /\ KeepCsv /\ KeepAccess /\ KeepViews

FetchOutcomes == {"ok", "http_error", "network_error", "bad_json", "not_success"}

\* The message of the error thrown for a failed outcome.
ForecastErrorMessage(outcome) ==
    CASE outcome = "http_error" -> "Previsao nao disponivel (404)"
      [] outcome = "network_error" -> "Failed to fetch"
      [] outcome = "bad_json" -> "Unexpected token in JSON"
      [] OTHER -> "Falha ao carregar previsao"

\* The catch branch without setData(null)
catchKeepingData(msg) == [error |-> msg, data |-> fData]
\* catch (err) { setError(err.message); setData(null) }
catchForecastError(msg) == [error |-> msg, data |-> NullData]

\* The rest of fetchForecast once its response arrived: setData(trimmed) or
\* the catch branch, then finally setLoading(false).
ForecastCompletes(r, outcome) ==
    /\ r \in inflight
    /\ inflight' = inflight \ {r}
    /\ IF outcome = "ok"
       THEN /\ fData' = Trimmed(ForecastFile(r.produto), r.horizonte)
            /\ UNCHANGED fError
       ELSE /\ fError' = catchForecastError(ForecastErrorMessage(outcome)).error
            /\ fData' = catchForecastError(ForecastErrorMessage(outcome)).data
    /\ fLoading' = FALSE
    /\ fDone' = [id |-> r.id, outcome |-> outcome]
    /\ UNCHANGED <<forecastProduct, forecastHorizon, fetchSeq, refetchCalls>>
    /\ KeepData /\ KeepFilter /\ KeepAgg /\ KeepCsv /\ KeepAccess /\ KeepViews

SelectProductStep == \E p \in Products \cup {NoProduct} : SelectProduct(p)
SelectHorizonStep == \E h \in Horizons : SelectHorizon(h)
ForecastCompletesStep == \E r \in inflight : \E o \in FetchOutcomes :
                             ForecastCompletes(r, o)

NextForecast ==
    \/ SelectProductStep
    \/ SelectHorizonStep
    \/ ClickGerar
    \/ Refetch
    \/ ForecastCompletesStep

InitForecastSpec == InitForecast /\ IdleData /\ IdleFilter /\ IdleAgg /\ IdleCsv /\ IdleAccess
    /\ IdleViews

SpecForecast == InitForecastSpec /\ [][NextForecast]_vars

\* C12: a forecast call that completes leaves loading false; when its fetch
\* failed (non-ok status, success false, fetch or JSON parsing threw) it also
\* leaves data null and error equal to the failure message.
C12_FailedFetchEndsInError ==
    [][fDone' # fDone =>
          /\ ~fLoading'
          /\ fDone'.outcome # "ok" =>
                /\ fData' = NullData
                /\ fError' = ForecastErrorMessage(fDone'.outcome)]_vars

\* A call that failed after an earlier one had succeeded: the data of the
\* earlier call is gone and the message is shown.
C12_Witness ==
    /\ fDone.id = 2
    /\ fDone.outcome = "not_success"
    /\ ~fLoading
    /\ fData = NullData
    /\ fError = ForecastErrorMessage("not_success")
    /\ inflight = {}

\* Months kept for each horizon the select offers: max(1, round(h / 30)).
MonthsOfHorizon(h) ==
    CASE h = 30 -> 1 [] h = 60 -> 2 [] h = 90 -> 3 [] h = 180 -> 6 [] h = 365 -> 12

\* C13: after a successful fetch with horizon h, every model's previsoes in
\* the hook's data is the prefix of length min(n, max(1, round(h/30))) of the
\* model's list in the file, and every other field of the result and of each
\* model is as in the file.
C13_TrimmedToHorizon ==
    [][(fDone' # fDone /\ fDone'.outcome = "ok") =>
          \E r \in inflight :
             /\ r.id = fDone'.id
             /\ LET file == ForecastFile(r.produto)
                    keep == MonthsOfHorizon(r.horizonte)
                IN /\ DOMAIN fData'.modelos = DOMAIN file.modelos
                   /\ [fData' EXCEPT !.modelos = file.modelos] = file
                   /\ \A k \in DOMAIN file.modelos :
                         LET inFile == file.modelos[k].previsoes
                             n == Len(inFile)
                             got == fData'.modelos[k]
                         IN /\ got.previsoes =
                                  SubSeq(inFile, 1, IF n < keep THEN n ELSE keep)
                            /\ Len(got.previsoes) <= keep
                            /\ [got EXCEPT !.previsoes = inFile] = file.modelos[k]]_vars

\* The file of soja (13 points for arima, 2 for prophet) fetched with the
\* horizon of 365 days: arima is cut to 12 points, prophet keeps its 2.
C13_Witness ==
    /\ fDone.id >= 1 /\ fDone.outcome = "ok"
    /\ fData # NullData
    /\ fData.produto = "soja"
    /\ Len(fData.modelos["arima"].previsoes) = 12
    /\ Len(fData.modelos["prophet"].previsoes) = 2
    /\ fData.modelos["arima"].previsoes[12] =
          ForecastFile("soja").modelos["arima"].previsoes[12]

\* C14: no request is issued at mount; a change of the product sets data and
\* error to null and issues no request; a request is issued only by a call of
\* refetch (fetchForecast), for the product selected at the call; a refetch
\* with no product selected issues no request and sets data to null.
C14_ResetOnProductChange ==
    /\ fetchSeq = 0 /\ inflight = {}
    /\ [][/\ forecastProduct' # forecastProduct =>
                /\ fData' = NullData /\ fError' = NoError
                /\ fetchSeq' = fetchSeq /\ inflight' = inflight
          /\ forecastHorizon' # forecastHorizon =>
                fetchSeq' = fetchSeq /\ inflight' = inflight
          /\ (fetchSeq' # fetchSeq \/ inflight' \ inflight # {}) =>
                /\ refetchCalls' = refetchCalls + 1
                /\ \A r \in inflight' \ inflight : r.produto = forecastProduct
          /\ (refetchCalls' # refetchCalls /\ forecastProduct = NoProduct) =>
                /\ fetchSeq' = fetchSeq /\ inflight' = inflight
                /\ fData' = NullData]_vars

\* One refetch fetched a forecast successfully and another refetch, made with
\* no product selected, issued no request; the product has been deselected
\* and the data is null.
C14_Witness ==
    /\ refetchCalls = 2 /\ fetchSeq = 1
    /\ fDone.id = 1 /\ fDone.outcome = "ok"
    /\ forecastProduct = NoProduct
    /\ fData = NullData /\ fError = NoError
    /\ inflight = {}

\* C3: whenever the hook is not loading and holds data, that data is the
\* response fetched for the product that is currently selected.
C3_DataIsForSelectedProduct ==
    (~fLoading /\ fData # NullData) => fData.produto = forecastProduct

(***************************************************************************)
(*                 Filters (Filters.jsx) and useFilteredData               *)
(***************************************************************************)
MaxRecords == 2

\* An optional number (null or a number) is <<>> or <<n>>.
NoNum == <<>>
Num(n) == <<n>>
\* JS truthiness of an optional number: null and 0 are falsy.
TruthyNum(x) == x # NoNum /\ x[1] # 0

NoFilter == "<null>"

\* All lists over S of length at most n.
SeqsUpTo(S, n) == UNION {[1..k -> S] : k \in 0..n}

\* options?.anos, options?.categorias, options?.category_products
Anos == {2023, 2024}
Categorias == {"graos", "frutas"}
categoryProducts(cat) == IF cat = "graos" THEN {"soja"} ELSE {"maca"}
Produtos == {"soja", "maca"}
MaxAno == CHOOSE y \in Anos : \A z \in Anos : z <= y

\* The records of detailed.json used to exercise the filters.
FilterRecords == [a : {Num(y) : y \in Anos}, c : Categorias, p : Produtos,
                  pm : {Num(10)}]

NoFilters == [anoMin |-> NoNum, anoMax |-> NoNum,
              categoria |-> NoFilter, produto |-> NoFilter]

\* records.filter(r => r.a >= filters.anoMin) with > in place of >=
useFilteredDataStrict(d, f) ==
    IF ~d.loaded THEN <<>>
    ELSE LET r0 == d.records
             gtMin(r) == r.a # NoNum /\ r.a[1] > f.anoMin[1]
             leMax(r) == r.a # NoNum /\ r.a[1] <= f.anoMax[1]
             isCat(r) == r.c = f.categoria
             isProd(r) == r.p = f.produto
             r1 == IF TruthyNum(f.anoMin) THEN SelectSeq(r0, gtMin) ELSE r0
             r2 == IF TruthyNum(f.anoMax) THEN SelectSeq(r1, leMax) ELSE r1
             r3 == IF f.categoria # NoFilter THEN SelectSeq(r2, isCat) ELSE r2
             r4 == IF f.produto # NoFilter THEN SelectSeq(r3, isProd) ELSE r3
         IN r4

\* useFilteredData(data, filters): four successive Array.filter passes.
useFilteredData(d, f) ==
    IF ~d.loaded THEN <<>>
    ELSE LET r0 == d.records
             geMin(r) == r.a # NoNum /\ r.a[1] >= f.anoMin[1]
             leMax(r) == r.a # NoNum /\ r.a[1] <= f.anoMax[1]
             isCat(r) == r.c = f.categoria
             isProd(r) == r.p = f.produto
             r1 == IF TruthyNum(f.anoMin) THEN SelectSeq(r0, geMin) ELSE r0
             r2 == IF TruthyNum(f.anoMax) THEN SelectSeq(r1, leMax) ELSE r1
             r3 == IF f.categoria # NoFilter THEN SelectSeq(r2, isCat) ELSE r2
             r4 == IF f.produto # NoFilter THEN SelectSeq(r3, isProd) ELSE r3
         IN r4

InitFilter ==
    /\ detailed \in {[loaded |-> FALSE]} \cup
                    {[loaded |-> TRUE, records |-> rs] :
                        rs \in SeqsUpTo(FilterRecords, MaxRecords)}
    /\ filters = NoFilters
    /\ filteredData = useFilteredData(detailed, NoFilters)

\* App renders <Filters> only once the data is there (App.jsx 67-101).
FiltersRendered == detailed.loaded

\* setFilters(next) followed by the re-render that recomputes the memo.
SetFilters(next) ==
    /\ FiltersRendered
    /\ next # filters
    /\ filters' = next
    /\ filteredData' = useFilteredData(detailed, next)
    /\ UNCHANGED detailed
    /\ KeepData /\ KeepForecast /\ KeepAgg /\ KeepCsv /\ KeepAccess /\ KeepViews

\* updateFilter(key, value)
updateFilter(key, value) ==
    LET next == [filters EXCEPT ![key] = value]
    IN IF /\ key = "categoria"
          /\ next.produto # NoFilter
          /\ next.categoria # NoFilter
          /\ categoryProducts(next.categoria) # {}
          /\ next.produto \notin categoryProducts(next.categoria)
       THEN [next EXCEPT !.produto = NoFilter]
       ELSE next

\* The two year selects: onChange -> updateFilter('anoMin' | 'anoMax', ...)
SelectAno(key, value) == SetFilters(updateFilter(key, value))

\* toggleCategoria(cat)
toggleCategoria(cat) ==
    SetFilters(updateFilter("categoria",
                            IF filters.categoria = cat THEN NoFilter ELSE cat))

\* availableProducts: the chips offered for toggling
availableProducts ==
    IF filters.categoria # NoFilter /\ categoryProducts(filters.categoria) # {}
    THEN categoryProducts(filters.categoria)
    ELSE Produtos

\* toggleProduto(prod)
toggleProduto(prod) ==
    /\ prod \in availableProducts
    /\ SetFilters(updateFilter("produto",
                               IF filters.produto = prod THEN NoFilter ELSE prod))

\* yearPresets and applyPreset(preset)
yearPresets == {[min |-> NoNum, max |-> NoNum],
                [min |-> Num(MaxAno), max |-> Num(MaxAno)],
                [min |-> Num(MaxAno - 4), max |-> Num(MaxAno)],
                [min |-> Num(MaxAno - 9), max |-> Num(MaxAno)]}

applyPreset(preset) ==
    SetFilters([filters EXCEPT !.anoMin = preset.min, !.anoMax = preset.max])

\* clearFilters(), offered when hasActiveFilters
clearFilters ==
    /\ filters # NoFilters
    /\ SetFilters(NoFilters)

SelectAnoStep == \E key \in {"anoMin", "anoMax"} :
                    \E v \in {NoNum} \cup {Num(y) : y \in Anos} : SelectAno(key, v)
ToggleCategoriaStep == \E cat \in Categorias : toggleCategoria(cat)
ToggleProdutoStep == \E prod \in Produtos : toggleProduto(prod)
ApplyPresetStep == \E preset \in yearPresets : applyPreset(preset)

NextFilter ==
    \/ SelectAnoStep
    \/ ToggleCategoriaStep
    \/ ToggleProdutoStep
    \/ ApplyPresetStep
    \/ clearFilters

InitFilterSpec == InitFilter /\ IdleData /\ IdleForecast /\ IdleAgg /\ IdleCsv /\ IdleAccess
    /\ IdleViews

SpecFilter == InitFilterSpec /\ [][NextFilter]_vars

\* The records of recs from position i on that satisfy every filter that is
\* set, in their original order.
RECURSIVE KeptFrom(_, _, _)
KeptFrom(recs, f, i) ==
    IF i > Len(recs) THEN <<>>
    ELSE LET r == recs[i]
             keep == /\ (f.anoMin # NoNum => r.a[1] >= f.anoMin[1])
                     /\ (f.anoMax # NoNum => r.a[1] <= f.anoMax[1])
                     /\ (f.categoria # NoFilter => r.c = f.categoria)
                     /\ (f.produto # NoFilter => r.p = f.produto)
         IN (IF keep THEN <<r>> ELSE <<>>) \o KeptFrom(recs, f, i + 1)

\* C7: filtering is exact. The memoised result is, in the original order,
\* exactly the records meeting every filter that is set; with all filters
\* null it is the full list, and with no loaded records it is empty.
C7_FilterExact ==
    /\ detailed.loaded => filteredData = KeptFrom(detailed.records, filters, 1)
    /\ (detailed.loaded /\ filters = NoFilters) => filteredData = detailed.records
    /\ ~detailed.loaded => filteredData = <<>>

\* Two records in the list, filters set on year and product, one record kept
\* and one dropped.
C7_Witness ==
    /\ detailed.loaded
    /\ Len(detailed.records) = 2
    /\ filters.anoMin # NoNum
    /\ filters.produto # NoFilter
    /\ Len(filteredData) = 1
    /\ filteredData[1] = detailed.records[2]

(***************************************************************************)
(*                              useAggregations                            *)
(***************************************************************************)
MaxFiltered == 2

\* The filtered records used to exercise the aggregation: category and
\* product may be missing (''), the price may be missing (null).
AggRecords == [a : {Num(2024)}, c : {"", "graos", "frutas"},
               p : {"", "soja", "milho"}, pm : {NoNum, Num(10), Num(30)},
               u : {""}, m : {NoNum}, mes : {NoNum}, d : {<<>>}]

\* Records of one product over three years, with or without a price and a
\* unit: the years present may leave a gap (2022 and 2024 without 2023).
MaxYearly == 2
YearRecords == [a : {Num(2022), Num(2023), Num(2024)}, c : {"graos"},
                p : {"soja"}, pm : {NoNum, Num(10), Num(30)},
                u : {"", "kg"}, m : {NoNum}, mes : {NoNum}, d : {<<>>}]

\* Records of one product whose month comes from m, from mes, from the date
\* string d ('2024-02-01', '2024', '2024-xx') or is missing.
MaxMonthly == 2
DateTexts == {<<"2", "0", "2", "4", "-", "0", "2", "-", "0", "1">>,
              <<"2", "0", "2", "4">>,
              <<"2", "0", "2", "4", "-", "x", "x">>}
MonthSources == {[m |-> Num(2), mes |-> Num(3), d |-> <<>>],
                 [m |-> NoNum, mes |-> Num(3), d |-> <<>>],
                 [m |-> NoNum, mes |-> NoNum, d |-> <<>>]} \cup
                {[m |-> NoNum, mes |-> NoNum, d |-> t] : t \in DateTexts}
MonthRecords == {[a |-> Num(y), c |-> "graos", p |-> "soja", pm |-> pm, u |-> "",
                  m |-> src.m, mes |-> src.mes, d |-> src.d] :
                    y \in {2023, 2024}, pm \in {NoNum, Num(10), Num(30)},
                    src \in MonthSources}

\* A run of n consecutive months of one product from month number first on
\* (1 is January 2023), with one or two quotations a month, listed from the
\* oldest or from the newest.
MaxMonths == 13
MonthlyRun(first, n, perMonth, newestFirst) ==
    LET month(i) == first + ((i - 1) \div perMonth)
        rec(i) == [a |-> Num(2023 + ((month(i) - 1) \div 12)),
                   m |-> Num(((month(i) - 1) % 12) + 1),
                   mes |-> NoNum, d |-> <<>>,
                   c |-> "graos", p |-> "soja", u |-> "kg",
                   pm |-> Num(10 * month(i) + (IF i % perMonth = 0 THEN 0 ELSE 4))]
        len == n * perMonth
    IN [i \in 1..len |-> IF newestFirst THEN rec(len + 1 - i) ELSE rec(i)]
MonthlyRuns == {MonthlyRun(first, n, k, o) :
                   first \in {1, 7}, n \in 1..MaxMonths, k \in {1, 2},
                   o \in BOOLEAN}

Digit(d) == <<"0", "1", "2", "3", "4", "5", "6", "7", "8", "9">>[d + 1]

\* String(n) of a natural number
RECURSIVE NatToStr(_)
NatToStr(n) == IF n < 10 THEN <<Digit(n)>>
               ELSE NatToStr(n \div 10) \o <<Digit(n % 10)>>

\* The value of a digit character, or -1 for any other character.
DigitValue(ch) ==
    IF \E v \in 0..9 : Digit(v) = ch THEN CHOOSE v \in 0..9 : Digit(v) = ch
    ELSE -1

\* parseInt(str, 10): the number spelled by the leading digits, NaN (the
\* missing number) when there is none.
RECURSIVE LeadingDigits(_, _)
LeadingDigits(str, acc) ==
    IF str = <<>> \/ DigitValue(str[1]) = -1 THEN acc
    ELSE LeadingDigits(Tail(str), 10 * acc + DigitValue(str[1]))

parseInt(str) ==
    IF str = <<>> \/ DigitValue(str[1]) = -1 THEN NoNum
    ELSE Num(LeadingDigits(str, 0))

\* String.prototype.split(sep) for a one-character separator
RECURSIVE split(_, _, _)
split(str, sep, cur) ==
    IF str = <<>> THEN <<cur>>
    ELSE IF str[1] = sep THEN <<cur>> \o split(Tail(str), sep, <<>>)
    ELSE split(Tail(str), sep, Append(cur, str[1]))

\* getRecordMonth(record): m, else mes, else the month of the date string d,
\* else 1
getRecordMonth(record) ==
    IF TruthyNum(record.m) THEN record.m[1]
    ELSE IF TruthyNum(record.mes) THEN record.mes[1]
    ELSE IF record.d # <<>>
         THEN LET parts == split(record.d, "-", <<>>)
              IN IF Len(parts) >= 2 /\ parseInt(parts[2]) # NoNum
                 THEN parseInt(parts[2])[1]
                 ELSE 1
         ELSE 1

\* String(month).padStart(2, '0')
padStart2(str) == IF Len(str) < 2 THEN <<"0">> \o str ELSE str

\* `${r.a}-${String(month).padStart(2, '0')}`
periodOf(r) ==
    (IF r.a = NoNum THEN <<"n", "u", "l", "l">> ELSE NatToStr(r.a[1]))
    \o <<"-">> \o padStart2(NatToStr(getRecordMonth(r)))

\* Order of the characters of a period: the hyphen before the digits.
CharRank(ch) == IF ch = "-" THEN 0 ELSE 1 + DigitValue(ch)

\* a.localeCompare(b) < 0 for two period strings
RECURSIVE StrLess(_, _)
StrLess(x, y) ==
    IF y = <<>> THEN FALSE
    ELSE IF x = <<>> THEN TRUE
    ELSE IF x[1] = y[1] THEN StrLess(Tail(x), Tail(y))
    ELSE CharRank(x[1]) < CharRank(y[1])

\* A JS number that results from a division is kept as the fraction num/den.
Rat(n, d) == [num |-> n, den |-> d]
RECURSIVE Gcd(_, _)
Gcd(a, b) == IF b = 0 THEN a ELSE Gcd(b, a % b)
\* The fraction in lowest terms (the denominator is positive).
Lowest(x) ==
    LET g == Gcd(IF x.num < 0 THEN -x.num ELSE x.num, x.den)
    IN [num |-> x.num \div g, den |-> x.den \div g]
\* Two fractions are the same number.
RatEq(x, y) == Lowest(x) = Lowest(y)

RECURSIVE SumSeq(_)
SumSeq(xs) == IF xs = <<>> THEN 0 ELSE xs[1] + SumSeq(Tail(xs))

\* Math.min(...xs) and Math.max(...xs) of a non-empty list
MinSeq(xs) == CHOOSE m \in {xs[i] : i \in 1..Len(xs)} :
                 \A i \in 1..Len(xs) : m <= xs[i]
MaxSeq(xs) == CHOOSE m \in {xs[i] : i \in 1..Len(xs)} :
                 \A i \in 1..Len(xs) : m >= xs[i]

\* filteredData.filter(r => r.pm && r.pm > 0).map(r => r.pm)
prices(fd) ==
    LET priced(r) == TruthyNum(r.pm) /\ r.pm[1] > 0
        kept == SelectSeq(fd, priced)
    IN [i \in 1..Len(kept) |-> kept[i].pm[1]]

\* [...new Set(filteredData.map(r => r.a))].sort((a, b) => b - a)
RECURSIVE SortDesc(_)
SortDesc(S) ==
    IF S = {} THEN <<>>
    ELSE LET top == CHOOSE x \in S : \A y \in S : y <= x
         IN <<top>> \o SortDesc(S \ {top})

years(fd) == SortDesc({fd[i].a[1] : i \in 1..Len(fd)})

\* filteredData.filter(r => r.a === year && r.pm > 0).map(r => r.pm)
yearPrices(fd, year) ==
    LET inYear(r) == r.a = Num(year) /\ r.pm # NoNum /\ r.pm[1] > 0
        kept == SelectSeq(fd, inYear)
    IN [i \in 1..Len(kept) |-> kept[i].pm[1]]

\* ((currentAvg - prevAvg) / prevAvg) * 100 for currentAvg = cs/cn and
\* prevAvg = ps/pn, or 0 when prevAvg is not positive
PercentChange(cs, cn, ps, pn) ==
    IF ps > 0 THEN Rat(100 * (cs * pn - ps * cn), ps * cn) ELSE Rat(0, 1)

\* const prevYear = years[1]
prevYear(ys) == ys[2]

\* Calculate YoY (Year over Year) change
yoyChange(fd) ==
    LET ys == years(fd)
    IN IF Len(ys) >= 2
       THEN LET currentYearPrices == yearPrices(fd, ys[1])
                prevYearPrices == yearPrices(fd, prevYear(ys))
            IN IF Len(currentYearPrices) > 0 /\ Len(prevYearPrices) > 0
               THEN PercentChange(SumSeq(currentYearPrices), Len(currentYearPrices),
                                  SumSeq(prevYearPrices), Len(prevYearPrices))
               ELSE Rat(0, 1)
       ELSE Rat(0, 1)

\* The keys of productStats in insertion order: the products (r.p truthy) in
\* the order of their first record.
RECURSIVE productKeys(_, _, _)
productKeys(fd, i, acc) ==
    IF i > Len(fd) THEN acc
    ELSE IF fd[i].p = "" \/ \E j \in 1..Len(acc) : acc[j] = fd[i].p
         THEN productKeys(fd, i + 1, acc)
         ELSE productKeys(fd, i + 1, Append(acc, fd[i].p))

\* productStats[produto] after the forEach: count, sum of the prices,
\* categoria of the first record, unidade the first non-empty r.u ('' for
\* null).
productStats(fd, produto) ==
    LET ofProduct(r) == r.p = produto
        recs == SelectSeq(fd, ofProduct)
        hasPrice(r) == TruthyNum(r.pm)
        priced == SelectSeq(recs, hasPrice)
        hasUnit(r) == r.u # ""
        withUnit == SelectSeq(recs, hasUnit)
    IN [count |-> Len(recs),
        sum |-> SumSeq([i \in 1..Len(priced) |-> priced[i].pm[1]]),
        categoria |-> recs[1].c,
        unidade |-> IF withUnit = <<>> THEN "" ELSE withUnit[1].u]

\* productByYear[produto][year]: sum and count of the priced records
productByYear(fd, produto, year) ==
    LET inYear(r) == r.p = produto /\ r.a = Num(year) /\ TruthyNum(r.pm)
        recs == SelectSeq(fd, inYear)
    IN [sum |-> SumSeq([i \in 1..Len(recs) |-> recs[i].pm[1]]),
        count |-> Len(recs)]

\* Object.keys(productByYear[produto]).map(Number).sort((a, b) => b - a)
productYears(fd, produto) ==
    SortDesc({fd[i].a[1] : i \in {j \in 1..Len(fd) :
                 fd[j].p = produto /\ TruthyNum(fd[j].pm)}})

\* Calculate YoY variation for this product: null (the missing number) or
\* the percentage as a fraction
variacao(fd, produto) ==
    LET ys == productYears(fd, produto)
    IN IF Len(ys) >= 2
       THEN LET current == productByYear(fd, produto, ys[1])
                prev == productByYear(fd, produto, ys[2])
            IN IF current.count > 0 /\ prev.count > 0 /\ prev.sum > 0
               THEN Num(PercentChange(current.sum, current.count,
                                      prev.sum, prev.count))
               ELSE NoNum
       ELSE NoNum

\* The item of topProducts for produto
topProduct(fd, produto) ==
    LET stats == productStats(fd, produto)
    IN [produto |-> produto,
        categoria |-> stats.categoria,
        unidade |-> stats.unidade,
        media |-> IF stats.count > 0 THEN Rat(stats.sum, stats.count)
                  ELSE Rat(0, 1),
        registros |-> stats.count,
        variacao |-> variacao(fd, produto)]

\* .sort((a, b) => b.registros - a.registros), a stable sort
RECURSIVE insertByRegistros(_, _)
insertByRegistros(sorted, x) ==
    IF sorted = <<>> THEN <<x>>
    ELSE IF x.registros - sorted[1].registros > 0 THEN <<x>> \o sorted
    ELSE <<sorted[1]>> \o insertByRegistros(Tail(sorted), x)

RECURSIVE sortByRegistros(_, _)
sortByRegistros(items, n) ==
    IF n = 0 THEN <<>>
    ELSE insertByRegistros(sortByRegistros(items, n - 1), items[n])

topProducts(fd) ==
    LET keys == productKeys(fd, 1, <<>>)
        items == [i \in 1..Len(keys) |-> topProduct(fd, keys[i])]
    IN sortByRegistros(items, Len(items))

\* monthlyData[key]: sum and count of the records of produto with a positive
\* price whose period is key
monthlyData(fd, produto, key) ==
    LET inMonth(r) == r.p = produto /\ r.pm # NoNum /\ r.pm[1] > 0
                      /\ periodOf(r) = key
        recs == SelectSeq(fd, inMonth)
    IN [sum |-> SumSeq([i \in 1..Len(recs) |-> recs[i].pm[1]]),
        count |-> Len(recs)]

\* .sort((a, b) => a.period.localeCompare(b.period)) of points whose periods
\* are pairwise distinct
RECURSIVE sortPeriods(_)
sortPeriods(keys) ==
    IF keys = {} THEN <<>>
    ELSE LET first == CHOOSE k \in keys : \A o \in keys \ {k} : StrLess(k, o)
         IN <<first>> \o sortPeriods(keys \ {first})

\* slice(0, n) in place of slice(-n): the oldest n points
firstPoints(points, n) ==
    SubSeq(points, 1, IF n < Len(points) THEN n ELSE Len(points))
\* Array.prototype.slice(-n)
lastPoints(points, n) ==
    SubSeq(points, IF n < Len(points) THEN Len(points) - n + 1 ELSE 1,
           Len(points))

\* Number of monthly points a sparkline keeps: slice(-12)
SparkMonths == 12

\* Generate sparkline data (monthly averages, last 12 months)
sparkline(fd, produto) ==
    LET keys == {periodOf(fd[i]) : i \in {j \in 1..Len(fd) :
                    fd[j].p = produto /\ fd[j].pm # NoNum /\ fd[j].pm[1] > 0}}
        sorted == sortPeriods(keys)
        points == [i \in 1..Len(sorted) |->
                     LET s == monthlyData(fd, produto, sorted[i])
                     IN [period |-> sorted[i], value |-> Rat(s.sum, s.count)]]
    IN lastPoints(points, SparkMonths)

sparklineData(fd) ==
    LET keys == productKeys(fd, 1, <<>>)
    IN [produto \in {keys[i] : i \in 1..Len(keys)} |-> sparkline(fd, produto)]

\* The accumulator a category starts with: min Infinity and max -Infinity are
\* the missing number.
NewCategory == [count |-> 0, sum |-> 0, min |-> NoNum, max |-> NoNum,
                products |-> {}]

\* The body of the forEach with count++ moved under if (r.pm)
CategoryStepCountingPriced(cur, r) ==
    [count |-> IF TruthyNum(r.pm) THEN cur.count + 1 ELSE cur.count,
     products |-> IF r.p # "" THEN cur.products \cup {r.p} ELSE cur.products,
     sum |-> IF TruthyNum(r.pm) THEN cur.sum + r.pm[1] ELSE cur.sum,
     min |-> IF TruthyNum(r.pm)
             THEN (IF cur.min = NoNum \/ r.pm[1] < cur.min[1] THEN r.pm ELSE cur.min)
             ELSE cur.min,
     max |-> IF TruthyNum(r.pm)
             THEN (IF cur.max = NoNum \/ r.pm[1] > cur.max[1] THEN r.pm ELSE cur.max)
             ELSE cur.max]

\* The body of the forEach for a record r whose category has accumulator cur:
\* count++, products.add(r.p) if r.p, and sum/min/max if r.pm.
CategoryStep(cur, r) ==
    [count |-> cur.count + 1,
     products |-> IF r.p # "" THEN cur.products \cup {r.p} ELSE cur.products,
     sum |-> IF TruthyNum(r.pm) THEN cur.sum + r.pm[1] ELSE cur.sum,
     min |-> IF TruthyNum(r.pm)
             THEN (IF cur.min = NoNum \/ r.pm[1] < cur.min[1] THEN r.pm ELSE cur.min)
             ELSE cur.min,
     max |-> IF TruthyNum(r.pm)
             THEN (IF cur.max = NoNum \/ r.pm[1] > cur.max[1] THEN r.pm ELSE cur.max)
             ELSE cur.max]

\* filteredData.forEach(r => { if (!r.c) return; ... }) from record i on
RECURSIVE GroupByCategory(_, _, _)
GroupByCategory(fd, i, acc) ==
    IF i > Len(fd) THEN acc
    ELSE LET r == fd[i]
         IN IF r.c = ""
            THEN GroupByCategory(fd, i + 1, acc)
            ELSE LET cur == IF r.c \in DOMAIN acc THEN acc[r.c] ELSE NewCategory
                     upd == CategoryStep(cur, r)
                 IN GroupByCategory(fd, i + 1,
                        [k \in DOMAIN acc \cup {r.c} |->
                            IF k = r.c THEN upd ELSE acc[k]])

\* Object.keys(byCategory).forEach(cat => byCategory[cat] = {...})
CategoryStats(stats) ==
    [media |-> IF stats.count > 0 THEN Rat(stats.sum, stats.count) ELSE Rat(0, 1),
     minimo |-> IF stats.min = NoNum THEN 0 ELSE stats.min[1],
     maximo |-> IF stats.max = NoNum THEN 0 ELSE stats.max[1],
     registros |-> stats.count,
     produtos |-> Cardinality(stats.products)]

byCategory(fd) ==
    LET acc == GroupByCategory(fd, 1, <<>>)
    IN [cat \in DOMAIN acc |-> CategoryStats(acc[cat])]

\* useAggregations(filteredData, data)
useAggregations(fd) ==
    IF Len(fd) = 0
    THEN [computed |-> TRUE, totalRecords |-> 0, avgPrice |-> Rat(0, 1),
          minPrice |-> 0, maxPrice |-> 0, uniqueProducts |-> 0,
          uniqueCategories |-> 0, yoyChange |-> Rat(0, 1),
          topProducts |-> <<>>, byCategory |-> <<>>, sparklineData |-> <<>>]
    ELSE LET ps == prices(fd)
         IN [computed |-> TRUE,
             totalRecords |-> Len(fd),
             avgPrice |-> IF Len(ps) > 0 THEN Rat(SumSeq(ps), Len(ps)) ELSE Rat(0, 1),
             minPrice |-> IF Len(ps) > 0 THEN MinSeq(ps) ELSE 0,
             maxPrice |-> IF Len(ps) > 0 THEN MaxSeq(ps) ELSE 0,
             uniqueProducts |-> Cardinality({fd[i].p : i \in 1..Len(fd)}),
             uniqueCategories |-> Cardinality({fd[i].c : i \in 1..Len(fd)}),
             yoyChange |-> yoyChange(fd),
             topProducts |-> topProducts(fd),
             byCategory |-> byCategory(fd),
             sparklineData |-> sparklineData(fd)]

InitAgg ==
    /\ detailed = [loaded |-> FALSE]
    /\ filters = <<>>
    /\ filteredData \in SeqsUpTo(AggRecords, MaxFiltered)
                        \cup SeqsUpTo(YearRecords, MaxYearly)
                        \cup SeqsUpTo(MonthRecords, MaxMonthly)
                        \cup MonthlyRuns
    /\ aggregations = [computed |-> FALSE]

\* The render in which useMemo computes the aggregations of filteredData.
Aggregate ==
    /\ ~aggregations.computed
    /\ aggregations' = useAggregations(filteredData)
    /\ UNCHANGED filterVars
    /\ KeepData /\ KeepForecast /\ KeepCsv /\ KeepAccess /\ KeepViews

NextAgg == Aggregate

InitAggSpec == InitAgg /\ IdleData /\ IdleForecast /\ IdleCsv /\ IdleAccess
    /\ IdleViews

SpecAgg == InitAggSpec /\ [][NextAgg]_vars

\* Positions of the filtered records of category c.
InCategory(fd, c) == {i \in 1..Len(fd) : fd[i].c = c}

RECURSIVE SumOver(_, _)
SumOver(f, S) ==
    IF S = {} THEN 0
    ELSE LET x == CHOOSE y \in S : TRUE IN f[x] + SumOver(f, S \ {x})

\* C4: byCategory has exactly one key per distinct non-empty category of the
\* filtered records; registros is the number of records of the category,
\* produtos the number of its distinct non-empty products, and the registros
\* add up to the number of records that have a category.
C4_GroupsByCategory ==
    aggregations.computed =>
        LET fd == filteredData
            bc == aggregations.byCategory
            cats == {fd[i].c : i \in 1..Len(fd)} \ {""}
        IN /\ DOMAIN bc = cats
           /\ \A c \in cats :
                 /\ bc[c].registros = Cardinality(InCategory(fd, c))
                 /\ bc[c].produtos =
                       Cardinality({fd[i].p : i \in InCategory(fd, c)} \ {""})
           /\ SumOver([c \in cats |-> bc[c].registros], cats) =
                 Cardinality({i \in 1..Len(fd) : fd[i].c # ""})

\* Two records of one category with different products, the second without
\* a price.
C4_Witness ==
    /\ aggregations.computed
    /\ Len(filteredData) = 2
    /\ filteredData[1].c = "graos" /\ filteredData[2].c = "graos"
    /\ filteredData[1].p = "soja" /\ filteredData[2].p = "milho"
    /\ filteredData[2].pm = NoNum
    /\ aggregations.byCategory["graos"].registros = 2
    /\ aggregations.byCategory["graos"].produtos = 2

\* C5: for every category that has priced records, media is the arithmetic
\* mean of the prices of its records that carry a price, and minimo / maximo
\* are the smallest / largest of those prices.
C5_MeanOfPricedRecords ==
    aggregations.computed =>
        LET fd == filteredData
            bc == aggregations.byCategory
        IN \A c \in DOMAIN bc :
              LET pricedAt == {i \in InCategory(fd, c) : fd[i].pm # NoNum}
                  price == [i \in pricedAt |-> fd[i].pm[1]]
              IN pricedAt # {} =>
                    /\ RatEq(bc[c].media,
                             Rat(SumOver(price, pricedAt), Cardinality(pricedAt)))
                    /\ \A i \in pricedAt : bc[c].minimo <= price[i]
                    /\ \A i \in pricedAt : bc[c].maximo >= price[i]
                    /\ \E i \in pricedAt : bc[c].minimo = price[i]
                    /\ \E i \in pricedAt : bc[c].maximo = price[i]

\* Positions of the filtered records of year y that have a positive price.
PricedInYear(fd, y) ==
    {i \in 1..Len(fd) : fd[i].a = Num(y) /\ fd[i].pm # NoNum /\ fd[i].pm[1] > 0}

\* C11: yoyChange is 0 when the filtered records span fewer than two distinct
\* years; otherwise it is 100 * (avg(Y) - avg(Y-1)) / avg(Y-1), Y the most
\* recent year of the filtered records, Y-1 the calendar year before it and
\* avg(y) the mean of the positive prices of year y (which must exist).
C11_YoyAgainstPreviousYear ==
    aggregations.computed =>
        LET fd == filteredData
            ys == {fd[i].a[1] : i \in 1..Len(fd)}
        IN IF Cardinality(ys) < 2
           THEN RatEq(aggregations.yoyChange, Rat(0, 1))
           ELSE LET Y == CHOOSE y \in ys : \A z \in ys : z <= y
                    cur == PricedInYear(fd, Y)
                    prev == PricedInYear(fd, Y - 1)
                    price == [i \in 1..Len(fd) |->
                                 IF fd[i].pm = NoNum THEN 0 ELSE fd[i].pm[1]]
                    cs == SumOver(price, cur)
                    ps == SumOver(price, prev)
                IN /\ cur # {} /\ prev # {}
                   /\ RatEq(aggregations.yoyChange,
                            Rat(100 * (cs * Cardinality(prev) - ps * Cardinality(cur)),
                                ps * Cardinality(cur)))

\* The month number year * 12 + month of a record and of a 'YYYY-MM' string.
MonthNumber(r) == r.a[1] * 12 + getRecordMonth(r)
PeriodNumber(period) ==
    LET parts == split(period, "-", <<>>)
    IN parseInt(parts[1])[1] * 12 + parseInt(parts[2])[1]

\* Positions of the records of product p with a positive price.
PricedOf(fd, p) ==
    {i \in 1..Len(fd) : fd[i].p = p /\ fd[i].pm # NoNum /\ fd[i].pm[1] > 0}

\* C16: for every product p, sparklineData[p] has one point per distinct
\* YYYY-MM period in which p has a filtered record with a positive price,
\* restricted to the 12 most recent such periods; the points are in strictly
\* ascending period order and the value of a point is the mean of those
\* prices of its period.
C16_SparklineLast12Months ==
    aggregations.computed =>
        LET fd == filteredData
            sd == aggregations.sparklineData
        IN /\ DOMAIN sd = {fd[i].p : i \in 1..Len(fd)} \ {""}
           /\ \A p \in DOMAIN sd :
                 LET pts == sd[p]
                     months == {MonthNumber(fd[i]) : i \in PricedOf(fd, p)}
                     shown == {PeriodNumber(pts[i].period) : i \in 1..Len(pts)}
                     price == [i \in 1..Len(fd) |->
                                  IF fd[i].pm = NoNum THEN 0 ELSE fd[i].pm[1]]
                 IN /\ Len(pts) <= 12
                    /\ Len(pts) = IF Cardinality(months) < 12
                                  THEN Cardinality(months) ELSE 12
                    /\ \A i \in 1..(Len(pts) - 1) :
                          PeriodNumber(pts[i].period) < PeriodNumber(pts[i + 1].period)
                    /\ shown \subseteq months
                    /\ \A q \in months \ shown : \A x \in shown : q < x
                    /\ \A i \in 1..Len(pts) :
                          LET at == {j \in PricedOf(fd, p) :
                                        MonthNumber(fd[j]) = PeriodNumber(pts[i].period)}
                          IN RatEq(pts[i].value,
                                   Rat(SumOver(price, at), Cardinality(at)))

\* Thirteen months of soja from July 2023 to July 2024, two quotations a
\* month, listed from the newest: the sparkline keeps August 2023 to July
\* 2024 and its first value is the mean of the two quotations of August.
C16_Witness ==
    /\ aggregations.computed
    /\ Len(filteredData) = 26
    /\ filteredData[1].a = Num(2024) /\ filteredData[26].a = Num(2023)
    /\ filteredData[26].m = Num(7)
    /\ Len(aggregations.sparklineData["soja"]) = 12
    /\ aggregations.sparklineData["soja"][1].period =
          <<"2", "0", "2", "3", "-", "0", "8">>
    /\ aggregations.sparklineData["soja"][12].period =
          <<"2", "0", "2", "4", "-", "0", "7">>
    /\ RatEq(aggregations.sparklineData["soja"][1].value, Rat(82, 1))

(***************************************************************************)
(*                          useFilteredTimeSeries                          *)
(***************************************************************************)
MaxSeries == 2

\* Filtered records that may lack the year or the price, with the month
\* given by m, by the date string d or not at all.
SeriesRecords == {[a |-> a, c |-> "graos", p |-> "soja", pm |-> pm, u |-> "",
                   m |-> src.m, mes |-> NoNum, d |-> src.d] :
                     a \in {NoNum, Num(2023), Num(2024)},
                     pm \in {NoNum, Num(10), Num(30)},
                     src \in {[m |-> Num(2), d |-> <<>>],
                              [m |-> NoNum, d |-> <<>>],
                              [m |-> NoNum,
                               d |-> <<"2", "0", "2", "4", "-", "0", "2">>]}}

\* The guard of the forEach with the year test dropped: if (!r.pm) return
skipsUnpricedOnly(r) == ~TruthyNum(r.pm)
\* if (!r.a || !r.pm) return
skipsRecord(r) == ~TruthyNum(r.a) \/ ~TruthyNum(r.pm)

\* byPeriod[period] after the forEach: sum, count, min and max of the prices
\* of the records of the period that are not skipped
byPeriod(fd, period) ==
    LET inPeriod(r) == ~skipsRecord(r) /\ periodOf(r) = period
        recs == SelectSeq(fd, inPeriod)
        ps == [i \in 1..Len(recs) |-> recs[i].pm[1]]
    IN [sum |-> SumSeq(ps), count |-> Len(recs),
        min |-> MinSeq(ps), max |-> MaxSeq(ps)]

\* useFilteredTimeSeries(filteredData)
useFilteredTimeSeries(fd) ==
    LET periods == {periodOf(fd[i]) :
                       i \in {j \in 1..Len(fd) : ~skipsRecord(fd[j])}}
    IN [period \in periods |->
           LET stats == byPeriod(fd, period)
           IN [media |-> IF stats.count > 0 THEN Rat(stats.sum, stats.count)
                         ELSE Rat(0, 1),
               min |-> stats.min, max |-> stats.max, count |-> stats.count]]

InitSeries ==
    /\ detailed = [loaded |-> FALSE]
    /\ filters = <<>>
    /\ filteredData \in SeqsUpTo(SeriesRecords, MaxSeries) \cup MonthlyRuns
    /\ timeSeries = [computed |-> FALSE]

\* The render in which useMemo computes the time series of filteredData.
GenerateTimeSeries ==
    /\ ~timeSeries.computed
    /\ timeSeries' = [computed |-> TRUE,
                      result |-> useFilteredTimeSeries(filteredData)]
    /\ UNCHANGED filterVars
    /\ KeepData /\ KeepForecast /\ KeepAgg /\ KeepCsv /\ KeepAccess /\ KeepRank
    /\ KeepLatest /\ KeepMerge

NextSeries == GenerateTimeSeries

InitSeriesSpec == InitSeries /\ IdleData /\ IdleForecast /\ IdleAgg /\ IdleCsv /\ IdleAccess
    /\ IdleRank /\ IdleLatest /\ IdleMerge

SpecSeries == InitSeriesSpec /\ [][NextSeries]_vars

\* Positions of the filtered records that have both a year and a price.
Dated(fd) == {i \in 1..Len(fd) : fd[i].a # NoNum /\ fd[i].pm # NoNum}

\* C17: the time series has exactly one entry per distinct YYYY-MM period of
\* the filtered records that have a year and a price; the count of an entry
\* is the number of those records in its period, the counts add up to the
\* number of those records, and min <= media <= max in every entry.
C17_TimeSeriesPerPeriod ==
    timeSeries.computed =>
        LET fd == filteredData
            ts == timeSeries.result
            keys == DOMAIN ts
            price == [i \in 1..Len(fd) |->
                         IF fd[i].pm = NoNum THEN 0 ELSE fd[i].pm[1]]
        IN /\ \A k \in keys : parseInt(split(k, "-", <<>>)[1]) # NoNum
           /\ {PeriodNumber(k) : k \in keys} =
                 {MonthNumber(fd[i]) : i \in Dated(fd)}
           /\ Cardinality(keys) =
                 Cardinality({MonthNumber(fd[i]) : i \in Dated(fd)})
           /\ \A k \in keys :
                 LET at == {i \in Dated(fd) : MonthNumber(fd[i]) = PeriodNumber(k)}
                 IN /\ ts[k].count = Cardinality(at)
                    /\ ts[k].min * ts[k].media.den <= ts[k].media.num
                    /\ ts[k].media.num <= ts[k].max * ts[k].media.den
                    /\ RatEq(ts[k].media, Rat(SumOver(price, at), Cardinality(at)))
           /\ SumOver([k \in keys |-> ts[k].count], keys) = Cardinality(Dated(fd))

\* Two priced records of February 2024, one dated by m and one by the date
\* string, give one entry with count 2, min 10, media 20, max 30.
C17_Witness ==
    /\ timeSeries.computed
    /\ Len(filteredData) = 2
    /\ filteredData[1].m = Num(2) /\ filteredData[1].pm = Num(10)
    /\ filteredData[2].d # <<>> /\ filteredData[2].pm = Num(30)
    /\ filteredData[1].a = Num(2024) /\ filteredData[2].a = Num(2024)
    /\ DOMAIN timeSeries.result = {<<"2", "0", "2", "4", "-", "0", "2">>}
    /\ timeSeries.result[<<"2", "0", "2", "4", "-", "0", "2">>].count = 2
    /\ timeSeries.result[<<"2", "0", "2", "4", "-", "0", "2">>].min = 10
    /\ timeSeries.result[<<"2", "0", "2", "4", "-", "0", "2">>].max = 30

(***************************************************************************)
(*                       ProductTable: exportCSV                           *)
(***************************************************************************)
MaxStrLen == 1
MaxRows == 2

\* Text is a list of characters. The characters a name or unit is made of:
\* an ordinary letter, the field delimiter and a line break.
Chars == {"a", ";", "\n"}
Strings == SeqsUpTo(Chars, MaxStrLen)

\* Number.prototype.toFixed(2) of the amount cents / 100
toFixed2(cents) ==
    NatToStr(cents \div 100) \o <<".">> \o
    <<Digit((cents % 100) \div 10), Digit(cents % 10)>>

\* String.prototype.toLowerCase, character by character
UpperCase == {"A", "C", "E", "I", "T", "U", "V"}
ToLowerChar(ch) ==
    IF ch \in UpperCase
    THEN [u \in UpperCase |->
            CASE u = "A" -> "a" [] u = "C" -> "c" [] u = "E" -> "e"
              [] u = "I" -> "i" [] u = "T" -> "t" [] u = "U" -> "u"
              [] u = "V" -> "v"][ch]
    ELSE ch
toLowerCase(str) == [i \in 1..Len(str) |-> ToLowerChar(str[i])]

\* PRODUCT_UNITS: the known product "A" is sold by "kg"; default 'unid.'
PRODUCT_UNITS == [key \in {<<"A">>} |-> <<"k", "g">>]
DefaultUnit == <<"u", "n", "i", "d", ".">>

\* getUnitForProduct(produto)
getUnitForProduct(produto) ==
    IF produto = <<>> THEN DefaultUnit
    ELSE IF produto \in DOMAIN PRODUCT_UNITS THEN PRODUCT_UNITS[produto]
    ELSE IF \E key \in DOMAIN PRODUCT_UNITS : toLowerCase(key) = toLowerCase(produto)
         THEN PRODUCT_UNITS[CHOOSE key \in DOMAIN PRODUCT_UNITS :
                                toLowerCase(key) = toLowerCase(produto)]
    ELSE DefaultUnit

\* Array.prototype.join(sep) of a list of texts
RECURSIVE Join(_, _)
Join(parts, sep) ==
    IF Len(parts) = 0 THEN <<>>
    ELSE IF Len(parts) = 1 THEN parts[1]
    ELSE parts[1] \o <<sep>> \o Join(Tail(parts), sep)

\* The rows ProductTable shows: rank is the position after sorting.
TableItems == [produto : Strings, categoria : Strings, unidade : Strings,
               media : {NoNum, Num(1250)}, registros : {3}]
WithRank(items) == [i \in 1..Len(items) |->
                      [rank |-> i, produto |-> items[i].produto,
                       categoria |-> items[i].categoria,
                       unidade |-> items[i].unidade, media |-> items[i].media,
                       registros |-> items[i].registros]]

\* headers of the export (each title is one opaque symbol)
csvHeaders(withCategory) ==
    IF withCategory
    THEN <<<<"Rank">>, <<"Produto">>, <<"Categoria">>, <<"Preco medio (R$)">>,
           <<"Unidade">>, <<"Registros">>>>
    ELSE <<<<"Rank">>, <<"Produto">>, <<"Preco medio (R$)">>, <<"Unidade">>,
           <<"Registros">>>>

\* One row of the export; undefined (item.media?.toFixed(2)) joins as ''.
csvRow(item, withCategory) ==
    LET media == IF item.media = NoNum THEN <<>> ELSE toFixed2(item.media[1])
        unit == IF item.unidade # <<>> THEN item.unidade
                ELSE getUnitForProduct(item.produto)
    IN IF withCategory
       THEN <<NatToStr(item.rank), item.produto, item.categoria, media, unit,
              NatToStr(item.registros)>>
       ELSE <<NatToStr(item.rank), item.produto, media, unit,
              NatToStr(item.registros)>>

\* [headers, ...rows].map(row => row.join(';')).join('\n'), after the BOM
exportCSVText(rows, withCategory) ==
    LET table == <<csvHeaders(withCategory)>> \o
                 [i \in 1..Len(rows) |-> csvRow(rows[i], withCategory)]
        lines == [i \in 1..Len(table) |-> Join(table[i], ";")]
    IN <<"BOM">> \o Join(lines, "\n")

InitCsv ==
    /\ tableRows \in {WithRank(items) : items \in SeqsUpTo(TableItems, MaxRows)}
    /\ showCategory \in BOOLEAN
    /\ exported = FALSE
    /\ csv = <<>>

\* exportCSV(): the click on the download button
exportCSV ==
    /\ ~exported
    /\ csv' = exportCSVText(tableRows, showCategory)
    /\ exported' = TRUE
    /\ UNCHANGED <<tableRows, showCategory>>
    /\ KeepData /\ KeepForecast /\ KeepFilter /\ KeepAgg /\ KeepAccess /\ KeepViews

NextCsv == exportCSV

InitCsvSpec == InitCsv /\ IdleData /\ IdleForecast /\ IdleFilter /\ IdleAgg /\ IdleAccess
    /\ IdleViews

SpecCsv == InitCsvSpec /\ [][NextCsv]_vars

\* The pieces of text between the occurrences of sep (String.split).
RECURSIVE SplitAt(_, _, _)
SplitAt(text, sep, cur) ==
    IF text = <<>> THEN <<cur>>
    ELSE IF Head(text) = sep THEN <<cur>> \o SplitAt(Tail(text), sep, <<>>)
    ELSE SplitAt(Tail(text), sep, Append(cur, Head(text)))

\* C6: the CSV export escapes delimiters. The generated text has exactly one
\* line per exported row after the header line, and every line has as many
\* ';'-separated fields as the header has columns.
C6_CsvWellFormed ==
    exported =>
        LET lines == SplitAt(csv, "\n", <<>>)
        IN /\ Len(lines) = 1 + Len(tableRows)
           /\ \A i \in 1..Len(lines) :
                 Len(SplitAt(lines[i], ";", <<>>)) = Len(csvHeaders(showCategory))

(***************************************************************************)
(*              ProductTable: search, sort, re-rank and limit              *)
(***************************************************************************)
MaxItems == 2

\* The numeric columns of a product: media, variacao (null when there is no
\* previous year) and registros.  Every column has equal and distinct values.
RankValues == {[media |-> 0, variacao |-> NoNum, registros |-> 1],
               [media |-> 3, variacao |-> Num(-5), registros |-> 1],
               [media |-> 0, variacao |-> Num(-5), registros |-> 3],
               [media |-> 3, variacao |-> Num(5), registros |-> 2],
               [media |-> 0, variacao |-> Num(5), registros |-> 2],
               [media |-> 3, variacao |-> NoNum, registros |-> 2]}
RankNames == {[produto |-> <<"A", "c">>, categoria |-> <<"T">>],
              [produto |-> <<"t">>, categoria |-> <<"a">>]}
RankItems == {[produto |-> n.produto, categoria |-> n.categoria,
               media |-> v.media, variacao |-> v.variacao,
               registros |-> v.registros] : n \in RankNames, v \in RankValues}

\* A list longer than the smallest option of the limit select (Top 10).
LongList == [i \in 1..11 |->
               [produto |-> <<"t">>, categoria |-> <<"a">>, media |-> i % 3,
                variacao |-> IF i % 2 = 0 THEN NoNum ELSE Num(i - 6),
                registros |-> (i * 4) % 11]]

\* The limit prop and the options of the limit select.
LimitProps == {1, 2}
LimitOptions == {10, 20, 50, 100}
SortColumns == {"media", "variacao", "registros"}
SearchTexts == {<<>>, <<"a">>, <<"C">>}

\* data.map((item, index) => ({ ...item, rank: index + 1 }))
WithIndexRank(items) ==
    [i \in 1..Len(items) |->
        [produto |-> items[i].produto, categoria |-> items[i].categoria,
         media |-> items[i].media, variacao |-> items[i].variacao,
         registros |-> items[i].registros, rank |-> i]]

normalizedData(d) == WithIndexRank(d)

\* String.prototype.includes
includes(str, sub) ==
    \E k \in 0..(Len(str) - Len(sub)) : SubSeq(str, k + 1, k + Len(sub)) = sub

\* item.produto?.toLowerCase().includes(searchLower) || item.categoria?...
matchesSearch(item, text) ==
    LET searchLower == toLowerCase(text)
    IN \/ includes(toLowerCase(item.produto), searchLower)
       \/ includes(toLowerCase(item.categoria), searchLower)

\* a[sortBy] || 0
sortValue(item, column) ==
    CASE column = "media" -> item.media
      [] column = "registros" -> item.registros
      [] column = "variacao" ->
            IF item.variacao = NoNum THEN 0 ELSE item.variacao[1]

\* sortOrder === 'asc' ? aVal - bVal : bVal - aVal
compareItems(a, b, column, order) ==
    IF order = "asc" THEN sortValue(a, column) - sortValue(b, column)
    ELSE sortValue(b, column) - sortValue(a, column)

\* Array.prototype.sort is stable: x goes before the first element that the
\* comparator puts after it.
RECURSIVE InsertSorted(_, _, _, _)
InsertSorted(sorted, x, column, order) ==
    IF sorted = <<>> THEN <<x>>
    ELSE IF compareItems(sorted[1], x, column, order) > 0
         THEN <<x>> \o sorted
         ELSE <<sorted[1]>> \o InsertSorted(Tail(sorted), x, column, order)

RECURSIVE SortItems(_, _, _, _)
SortItems(items, n, column, order) ==
    IF n = 0 THEN <<>>
    ELSE InsertSorted(SortItems(items, n - 1, column, order), items[n],
                      column, order)

\* The table without the re-rank: rows keep the rank of normalizedData.
keepRank(result) == result
\* Re-rank after sorting
reRank(result) == WithIndexRank(result)

\* The useMemo filteredData of ProductTable
tableFilteredData(d, text, column, order, limit) ==
    LET keeps(item) == matchesSearch(item, text)
        found == IF text # <<>> THEN SelectSeq(normalizedData(d), keeps)
                 ELSE normalizedData(d)
        sorted == SortItems(found, Len(found), column, order)
    IN SliceTo(reRank(sorted), limit)

InitRank ==
    /\ tableData \in SeqsUpTo(RankItems, MaxItems) \cup {LongList}
    /\ search = <<>>
    /\ sortBy = "registros"
    /\ sortOrder = "desc"
    /\ displayLimit \in LimitProps
    /\ tableRows = tableFilteredData(tableData, search, sortBy, sortOrder,
                                     displayLimit)
    /\ showCategory = FALSE
    /\ exported = FALSE
    /\ csv = <<>>

\* The render after a state change recomputes the memo.
Rerender ==
    /\ tableRows' = tableFilteredData(tableData', search', sortBy', sortOrder',
                                      displayLimit')
    /\ UNCHANGED <<showCategory, exported, csv>>
    /\ KeepData /\ KeepForecast /\ KeepFilter /\ KeepAgg /\ KeepAccess
    /\ KeepSeries /\ KeepLatest /\ KeepMerge

\* onChange={(e) => setSearch(e.target.value)}
setSearch(text) ==
    /\ text # search
    /\ search' = text
    /\ UNCHANGED <<tableData, sortBy, sortOrder, displayLimit>>
    /\ Rerender

handleSort(column) ==
    /\ IF sortBy = column
       THEN /\ sortOrder' = IF sortOrder = "asc" THEN "desc" ELSE "asc"
            /\ UNCHANGED sortBy
       ELSE /\ sortBy' = column
            /\ sortOrder' = "desc"
    /\ UNCHANGED <<tableData, search, displayLimit>>
    /\ Rerender

\* onChange={(e) => setDisplayLimit(parseInt(e.target.value))}
setDisplayLimit(n) ==
    /\ n # displayLimit
    /\ displayLimit' = n
    /\ UNCHANGED <<tableData, search, sortBy, sortOrder>>
    /\ Rerender

SetSearchStep == \E text \in SearchTexts : setSearch(text)
HandleSortStep == \E column \in SortColumns : handleSort(column)
SetDisplayLimitStep == \E n \in LimitOptions : setDisplayLimit(n)

NextRank ==
    \/ SetSearchStep
    \/ HandleSortStep
    \/ SetDisplayLimitStep

InitRankSpec == InitRank /\ IdleData /\ IdleForecast /\ IdleFilter /\ IdleAgg /\ IdleAccess
    /\ IdleSeries /\ IdleLatest /\ IdleMerge

SpecRank == InitRankSpec /\ [][NextRank]_vars

\* str contains sub when letter case is ignored.
ContainsIgnoringCase(str, sub) ==
    \E k \in 0..(Len(str) - Len(sub)) :
        \A j \in 1..Len(sub) : ToLowerChar(str[k + j]) = ToLowerChar(sub[j])

\* The positions of the products that match the search text.
Matching == {i \in 1..Len(tableData) :
                \/ ContainsIgnoringCase(tableData[i].produto, search)
                \/ ContainsIgnoringCase(tableData[i].categoria, search)}

\* The value a row is ordered by: the selected column, a missing value as 0.
OrderKey(item) ==
    IF sortBy = "media" THEN item.media
    ELSE IF sortBy = "registros" THEN item.registros
    ELSE IF item.variacao = NoNum THEN 0 ELSE item.variacao[1]

\* x comes strictly before y in the selected direction.
Before(x, y) == IF sortOrder = "asc" THEN OrderKey(x) < OrderKey(y)
                ELSE OrderKey(x) > OrderKey(y)

WithoutRank(row) == [produto |-> row.produto, categoria |-> row.categoria,
                     media |-> row.media, variacao |-> row.variacao,
                     registros |-> row.registros]

\* The table's rows are the first displayLimit rows of the matching products
\* in the selected order, ranked 1, 2, ..., k.
TopOfRanking ==
    LET k == IF displayLimit < Cardinality(Matching) THEN displayLimit
             ELSE Cardinality(Matching)
        shown(x) == Cardinality({i \in 1..Len(tableRows) :
                                    WithoutRank(tableRows[i]) = x})
        matched(x) == Cardinality({i \in Matching : tableData[i] = x})
    IN /\ Len(tableRows) = k
       /\ \A i \in 1..Len(tableRows) : tableRows[i].rank = i
       /\ \A i \in 1..(Len(tableRows) - 1) :
             ~Before(tableRows[i + 1], tableRows[i])
       /\ \A i \in 1..Len(tableRows) :
             shown(WithoutRank(tableRows[i])) <= matched(WithoutRank(tableRows[i]))
       /\ \A i \in Matching :
             shown(tableData[i]) < matched(tableData[i]) =>
                \A j \in 1..Len(tableRows) : ~Before(tableData[i], tableRows[j])

\* C15: for every product list, search text, sort column, direction and
\* display limit, ProductTable shows the first displayLimit rows of the
\* products matching the search (case-insensitive substring of product or
\* category) ordered by the selected column in the selected direction, a
\* missing value counting as 0, with ranks 1, 2, ..., k in display order; the
\* order the table starts with is registros descending.
C15_TopNRanking ==
    /\ sortBy = "registros" /\ sortOrder = "desc"
    /\ []TopOfRanking

\* Two products sorted by variacao ascending and cut to the top one: the
\* product without a variacao counts as 0 and comes before the positive one.
\* The search text matches one through its product name in another letter
\* case and the other through its category.
C15_Witness ==
    /\ Len(tableData) = 2
    /\ tableData[1].variacao = Num(5) /\ tableData[1].produto = <<"A", "c">>
    /\ tableData[2].variacao = NoNum /\ tableData[2].produto = <<"t">>
    /\ search = <<"a">> /\ Matching = {1, 2}
    /\ sortBy = "variacao" /\ sortOrder = "asc"
    /\ displayLimit = 1
    /\ Len(tableRows) = 1
    /\ tableRows[1].produto = <<"t">> /\ tableRows[1].rank = 1

(***************************************************************************)
(*                               LatestPrices                              *)
(***************************************************************************)
MaxLatest == 2

\* The records handed to LatestPrices: the year, the product and the price
\* may be missing; the month is m or, without it, 1.
LatestRecords == [a : {NoNum, Num(2023), Num(2024)}, m : {NoNum, Num(2)},
                  mes : {NoNum}, d : {<<>>}, c : {<<"C">>}, u : {""},
                  p : {<<"A">>, <<"t">>}, pm : {NoNum, Num(10)}] \cup
                 [a : {Num(2024)}, m : {NoNum, Num(2)},
                  mes : {NoNum}, d : {<<>>}, c : {<<"C">>}, u : {""},
                  p : {<<>>}, pm : {Num(10)}]

LatestSearchTexts == {<<>>, <<"a">>}
LatestColumns == {"media", "registros"}

\* periods.sort().slice(-1)[0] of the periods of the records that have a
\* year; <<>> stands for null
latestPeriodOf(records) ==
    LET periods == {periodOf(records[i]) :
                       i \in {j \in 1..Len(records) : TruthyNum(records[j].a)}}
    IN IF periods = {} THEN <<>>
       ELSE CHOOSE k \in periods : \A o \in periods \ {k} : StrLess(o, k)

\* The filter that compares the year only
inYearOnly(r, year, month) == r.a = year
\* r?.a === year && getRecordMonth(r) === month
inPeriod(r, year, month) ==
    r.a = year /\ month # NoNum /\ getRecordMonth(r) = month[1]

\* The keys of grouped in insertion order
RECURSIVE groupedKeys(_, _, _)
groupedKeys(recs, i, acc) ==
    IF i > Len(recs) THEN acc
    ELSE IF recs[i].p = <<>> \/ \E j \in 1..Len(acc) : acc[j] = recs[i].p
         THEN groupedKeys(recs, i + 1, acc)
         ELSE groupedKeys(recs, i + 1, Append(acc, recs[i].p))

\* grouped[produto] after the forEach, then the map that adds media, min,
\* max and registros
latestItem(recs, produto) ==
    LET ofProduct(r) == r.p = produto
        mine == SelectSeq(recs, ofProduct)
        hasPrice(r) == TruthyNum(r.pm)
        priced == SelectSeq(mine, hasPrice)
        ps == [i \in 1..Len(priced) |-> priced[i].pm[1]]
        hasUnit(r) == r.u # ""
        withUnit == SelectSeq(mine, hasUnit)
    IN [produto |-> produto,
        categoria |-> mine[1].c,
        unidade |-> IF withUnit = <<>> THEN "" ELSE withUnit[1].u,
        sum |-> SumSeq(ps),
        count |-> Len(ps),
        media |-> IF Len(ps) # 0 THEN Rat(SumSeq(ps), Len(ps)) ELSE Rat(0, 1),
        min |-> IF ps = <<>> THEN 0 ELSE MinSeq(ps),
        max |-> IF ps = <<>> THEN 0 ELSE MaxSeq(ps),
        registros |-> Len(ps)]

\* a[sortBy] || 0 as a fraction
latestValue(item, column) ==
    IF column = "media" THEN item.media ELSE Rat(item.registros, 1)

\* The sign of sortOrder === 'asc' ? aVal - bVal : bVal - aVal being positive
latestAfter(a, b, column, order) ==
    LET x == latestValue(a, column)
        y == latestValue(b, column)
    IN IF order = "asc" THEN x.num * y.den > y.num * x.den
       ELSE y.num * x.den > x.num * y.den

RECURSIVE latestInsert(_, _, _, _)
latestInsert(sorted, x, column, order) ==
    IF sorted = <<>> THEN <<x>>
    ELSE IF latestAfter(sorted[1], x, column, order) THEN <<x>> \o sorted
    ELSE <<sorted[1]>> \o latestInsert(Tail(sorted), x, column, order)

RECURSIVE latestSort(_, _, _, _)
latestSort(items, n, column, order) ==
    IF n = 0 THEN <<>>
    ELSE latestInsert(latestSort(items, n - 1, column, order), items[n],
                      column, order)

\* The useMemo rows of LatestPrices
latestRowsOf(records, period, text, column, order) ==
    IF period = <<>> THEN <<>>
    ELSE LET parts == split(period, "-", <<>>)
             year == parseInt(parts[1])
             month == parseInt(parts[2])
             keep(r) == inPeriod(r, year, month)
             periodRecords == SelectSeq(records, keep)
             keys == groupedKeys(periodRecords, 1, <<>>)
             result == [i \in 1..Len(keys) |-> latestItem(periodRecords, keys[i])]
             term == toLowerCase(text)
             found(item) == \/ includes(toLowerCase(item.produto), term)
                            \/ includes(toLowerCase(item.categoria), term)
             searched == IF text # <<>> THEN SelectSeq(result, found) ELSE result
         IN latestSort(searched, Len(searched), column, order)

InitLatest ==
    /\ detailed = [loaded |-> FALSE]
    /\ filters = <<>>
    /\ filteredData \in SeqsUpTo(LatestRecords, MaxLatest)
    /\ latestSearch = <<>>
    /\ latestSortBy = "media"
    /\ latestSortOrder = "desc"
    /\ latestPeriod = latestPeriodOf(filteredData)
    /\ latestRows = latestRowsOf(filteredData, latestPeriod, latestSearch,
                                 latestSortBy, latestSortOrder)

\* The render after a state change recomputes the memos.
LatestRerender ==
    /\ latestPeriod' = latestPeriodOf(filteredData)
    /\ latestRows' = latestRowsOf(filteredData, latestPeriod', latestSearch',
                                  latestSortBy', latestSortOrder')
    /\ UNCHANGED filterVars
    /\ KeepData /\ KeepForecast /\ KeepAgg /\ KeepCsv /\ KeepAccess
    /\ KeepRank /\ KeepSeries /\ KeepMerge

\* onChange={(e) => setSearch(e.target.value)}
latestSetSearch(text) ==
    /\ latestPeriod # <<>>
    /\ text # latestSearch
    /\ latestSearch' = text
    /\ UNCHANGED <<latestSortBy, latestSortOrder>>
    /\ LatestRerender

latestHandleSort(column) ==
    /\ latestPeriod # <<>>
    /\ IF latestSortBy = column
       THEN /\ latestSortOrder' = IF latestSortOrder = "asc" THEN "desc" ELSE "asc"
            /\ UNCHANGED latestSortBy
       ELSE /\ latestSortBy' = column
            /\ latestSortOrder' = IF column = "produtos" THEN "asc" ELSE "desc"
    /\ UNCHANGED latestSearch
    /\ LatestRerender

LatestSetSearchStep == \E text \in LatestSearchTexts : latestSetSearch(text)
LatestHandleSortStep == \E column \in LatestColumns : latestHandleSort(column)

NextLatest ==
    \/ LatestSetSearchStep
    \/ LatestHandleSortStep

InitLatestSpec == InitLatest /\ IdleData /\ IdleForecast /\ IdleAgg /\ IdleCsv /\ IdleAccess
    /\ IdleRank /\ IdleSeries /\ IdleMerge

SpecLatest == InitLatestSpec /\ [][NextLatest]_vars

\* Positions of the records of the year and month of the reference period.
InLatest(fd) ==
    {i \in 1..Len(fd) : fd[i].a # NoNum
                        /\ MonthNumber(fd[i]) = PeriodNumber(latestPeriod)}

\* C18: the reference period is the greatest YYYY-MM period of the records
\* that have a year; every row is aggregated only from the records of exactly
\* that year and month, there is at most one row per product, and registros
\* counts the records of the product (in that period) that carry a price;
\* with no record having a year there is no reference period and no table.
C18_LatestPeriodOnly ==
    LET fd == filteredData
        dated == {i \in 1..Len(fd) : fd[i].a # NoNum}
        price == [i \in 1..Len(fd) |-> IF fd[i].pm = NoNum THEN 0 ELSE fd[i].pm[1]]
    IN IF dated = {}
       THEN latestPeriod = <<>> /\ latestRows = <<>>
       ELSE /\ latestPeriod # <<>>
            /\ \A i \in dated : MonthNumber(fd[i]) <= PeriodNumber(latestPeriod)
            /\ \E i \in dated : MonthNumber(fd[i]) = PeriodNumber(latestPeriod)
            /\ \A i, j \in 1..Len(latestRows) :
                  latestRows[i].produto = latestRows[j].produto => i = j
            /\ \A i \in 1..Len(latestRows) :
                  LET row == latestRows[i]
                      mine == {j \in InLatest(fd) : fd[j].p = row.produto}
                      priced == {j \in mine : fd[j].pm # NoNum}
                  IN /\ mine # {}
                     /\ row.registros = Cardinality(priced)
                     /\ row.sum = SumOver(price, priced)
                     /\ \A j \in priced : row.min <= price[j] /\ price[j] <= row.max
                     /\ RatEq(row.media,
                              IF priced = {} THEN Rat(0, 1)
                              ELSE Rat(SumOver(price, priced), Cardinality(priced)))

\* A quotation of February 2023 and, for the same product, an unpriced
\* record of January 2024: the reference is 2024-01 and the only row counts
\* no quotation.
C18_Witness ==
    /\ Len(filteredData) = 2
    /\ filteredData[1].a = Num(2023) /\ filteredData[1].m = Num(2)
    /\ filteredData[1].pm = Num(10) /\ filteredData[1].p = <<"A">>
    /\ filteredData[2].a = Num(2024) /\ filteredData[2].m = NoNum
    /\ filteredData[2].pm = NoNum /\ filteredData[2].p = <<"A">>
    /\ latestPeriod = <<"2", "0", "2", "4", "-", "0", "1">>
    /\ Len(latestRows) = 1
    /\ latestRows[1].registros = 0
    /\ latestSortBy = "registros" /\ latestSortOrder = "asc"

(***************************************************************************)
(*                 ForecastTable: merging the forecasts by date            *)
(***************************************************************************)
MaxPoints == 2

\* The keys of modelos, in the order Object.keys enumerates them.
ModelKeys == <<"linear", "arima", "prophet">>

\* The two sources of the component: ForecastTable.jsx reads modelos.arima
\* and modelos.prophet, part_009 reads every key of modelos.
TableSources == {"ForecastTable.jsx", "part_009"}

\* Forecast dates (item.data), as <<year, month, day>>.
ForecastDates == {<<2024, 12, 31>>, <<2025, 1, 1>>, <<2025, 1, 2>>}

\* new Date(data) - new Date(b.data) compares instants; for calendar days the
\* instant grows with (year, month, day).
dateValue(date) == (date[1] * 12 + date[2]) * 31 + date[3]

NoModel == [missing |-> TRUE]

\* The forecast value of the i-th point of the k-th model: distinct for
\* distinct points.
PrevistoOf(k, i) == 100 * k + i

ModelInputs(k) ==
    {NoModel} \cup
    {[previsoes |-> [i \in 1..Len(ds) |->
                       [data |-> ds[i], previsto |-> PrevistoOf(k, i)]]] :
        ds \in SeqsUpTo(ForecastDates, MaxPoints)}

\* modelos[key]?.previsoes || []
previsoesOf(ms, key) ==
    LET k == CHOOSE j \in 1..Len(ModelKeys) : ModelKeys[j] = key
    IN IF "previsoes" \in DOMAIN ms[k] THEN ms[k].previsoes ELSE <<>>

\* part_009: Object.keys(modelos).filter(k => (modelos[k]?.previsoes?.length || 0) > 0)
modelKeysOf(ms) ==
    SelectSeq(ModelKeys, LAMBDA key : Len(previsoesOf(ms, key)) > 0)

\* ForecastTable.jsx: the two lists it reads
arimaProphetKeys == <<"arima", "prophet">>

\* One forEach step: create forecastMap[item.data] when missing, then store
\* the forecast under the key of the model.
putForecast(map, key, item) ==
    LET at == {i \in 1..Len(map) : map[i].data = item.data}
        withRow == IF at = {} THEN Append(map, [data |-> item.data, values |-> <<>>])
                   ELSE map
        i == CHOOSE j \in 1..Len(withRow) : withRow[j].data = item.data
        old == withRow[i].values
        new == [k \in DOMAIN old \cup {key} |->
                  IF k = key THEN item.previsto ELSE old[k]]
    IN [withRow EXCEPT ![i].values = new]

RECURSIVE putModel(_, _, _, _)
putModel(map, key, previsoes, i) ==
    IF i > Len(previsoes) THEN map
    ELSE putModel(putForecast(map, key, previsoes[i]), key, previsoes, i + 1)

RECURSIVE mergeKeys(_, _, _, _)
mergeKeys(map, ms, keys, k) ==
    IF k > Len(keys) THEN map
    ELSE mergeKeys(putModel(map, keys[k], previsoesOf(ms, keys[k]), 1),
                   ms, keys, k + 1)

\* Array.prototype.sort with (a, b) => new Date(a.data) - new Date(b.data)
RECURSIVE insertByDate(_, _)
insertByDate(sorted, x) ==
    IF sorted = <<>> THEN <<x>>
    ELSE IF dateValue(x.data) < dateValue(sorted[Len(sorted)].data)
         THEN Append(insertByDate(SubSeq(sorted, 1, Len(sorted) - 1), x),
                     sorted[Len(sorted)])
         ELSE Append(sorted, x)

RECURSIVE sortByDate(_, _)
sortByDate(rows, n) ==
    IF n = 0 THEN <<>> ELSE insertByDate(sortByDate(rows, n - 1), rows[n])

\* const forecasts = Object.values(forecastMap).sort(...)
forecastsOf(ms, source) ==
    LET keys == IF source = "part_009" THEN modelKeysOf(ms) ELSE arimaProphetKeys
        forecastMap == mergeKeys(<<>>, ms, keys, 1)
    IN sortByDate(forecastMap, Len(forecastMap))

InitMerge ==
    /\ modelos \in ModelInputs(1) \X ModelInputs(2) \X ModelInputs(3)
    /\ tableSource \in TableSources
    /\ forecasts = [rendered |-> FALSE]

\* The render of ForecastTable with the modelos of the forecast.
RenderForecastTable ==
    /\ ~forecasts.rendered
    /\ forecasts' = [rendered |-> TRUE, rows |-> forecastsOf(modelos, tableSource)]
    /\ UNCHANGED <<modelos, tableSource>>
    /\ KeepData /\ KeepForecast /\ KeepFilter /\ KeepAgg /\ KeepCsv /\ KeepAccess
    /\ KeepRank /\ KeepSeries /\ KeepLatest

NextMerge == RenderForecastTable

InitMergeSpec == InitMerge /\ IdleData /\ IdleForecast /\ IdleFilter /\ IdleAgg
    /\ IdleCsv /\ IdleAccess /\ IdleRank /\ IdleSeries /\ IdleLatest

SpecMerge == InitMergeSpec /\ [][NextMerge]_vars

\* The forecast points of the model of key k.
PointsOf(k) == IF "previsoes" \in DOMAIN modelos[k] THEN modelos[k].previsoes ELSE <<>>

\* The forecast dates appearing in any model.
DatesOfModels ==
    UNION {{PointsOf(k)[i].data : i \in 1..Len(PointsOf(k))} : k \in 1..Len(ModelKeys)}

\* (year, month, day) of a before that of b.
EarlierDate(a, b) ==
    \/ a[1] < b[1]
    \/ a[1] = b[1] /\ a[2] < b[2]
    \/ a[1] = b[1] /\ a[2] = b[2] /\ a[3] < b[3]

MergedByDate(rows) ==
    /\ {rows[i].data : i \in 1..Len(rows)} = DatesOfModels
    /\ Len(rows) = Cardinality(DatesOfModels)
    /\ \A i \in 1..Len(rows) - 1 : EarlierDate(rows[i].data, rows[i + 1].data)
    /\ \A i \in 1..Len(rows) : \A k \in 1..Len(ModelKeys) :
          LET here == {j \in 1..Len(PointsOf(k)) : PointsOf(k)[j].data = rows[i].data}
          IN /\ ModelKeys[k] \in DOMAIN rows[i].values <=> here # {}
             /\ here # {} =>
                  rows[i].values[ModelKeys[k]] \in {PointsOf(k)[j].previsto : j \in here}

\* C19: the table has exactly one row per distinct forecast date appearing in
\* any model that has a forecast point, the rows are in ascending date order,
\* and a row carries a value for a model exactly when the model has a
\* forecast point for that date, and the value is that point's previsto.
C19_MergedByDate == forecasts.rendered => MergedByDate(forecasts.rows)

\* The same statement for the source that reads every key of modelos.
MergedByDateAllKeys ==
    forecasts.rendered /\ tableSource = "part_009" => MergedByDate(forecasts.rows)

\* The same statement for the source that reads arima and prophet, when no
\* other model has a forecast point.
MergedByDateArimaProphet ==
    forecasts.rendered /\ tableSource = "ForecastTable.jsx" /\ PointsOf(1) = <<>>
        => MergedByDate(forecasts.rows)

(***************************************************************************)
(*              access-control Apps Script: doGet and logAttempt           *)
(***************************************************************************)
MaxAccessRows == 1
MaxCalls == 1

ACCESS_COLUMNS == <<"code", "status", "expires_at", "notes">>
LOG_COLUMNS == <<"timestamp", "email", "site", "code", "result", "user_agent", "ip">>

\* 1000 * 60 * 60 * 24 * 7 ms, in the model's time unit (one day)
Week == 7

\* The instants Date.now() may return, and the date an expires_at cell holds.
Times == {0, 1, 2}
ExpiryDates == {1}

Active == <<"a", "c", "t", "i", "v", "e">>

\* String.prototype.trim
RECURSIVE trimStart(_)
trimStart(str) ==
    IF str # <<>> /\ Head(str) = " " THEN trimStart(Tail(str)) ELSE str
RECURSIVE trimEnd(_)
trimEnd(str) ==
    IF str # <<>> /\ str[Len(str)] = " "
    THEN trimEnd(SubSeq(str, 1, Len(str) - 1)) ELSE str
trim(str) == trimEnd(trimStart(str))

\* Array.prototype.indexOf: the 0-based position of x, or -1
indexOf(arr, x) ==
    IF \E i \in 1..Len(arr) : arr[i] = x
    THEN (CHOOSE i \in 1..Len(arr) : arr[i] = x /\ \A j \in 1..(i - 1) : arr[j] # x) - 1
    ELSE -1

\* Cells of the access sheet. An expires_at cell is empty, text that is no
\* date, or a date.
CodeCells == {<<"k">>, <<"k", " ">>}
StatusCells == {<<" ", "A", "c", "t", "i", "v", "e">>,
                <<"i", "n">> \o Active,
                <<>>}
EmptyCell == [kind |-> "empty", t |-> 0]
ExpiresCells == {EmptyCell, [kind |-> "text", t |-> 0]} \cup
                {[kind |-> "date", t |-> d] : d \in ExpiryDates}
AccessEntries == [code : CodeCells, status : StatusCells, expires : ExpiresCells]

\* The headers an access sheet may have: all columns, no expires_at column,
\* no status column.
AccessHeaders == {ACCESS_COLUMNS, <<"code", "status", "notes">>, <<"notes", "code">>}

\* The row of cells an entry occupies under a header.
RowCells(header, entry) ==
    [i \in 1..Len(header) |->
        CASE header[i] = "code" -> entry.code
          [] header[i] = "status" -> entry.status
          [] header[i] = "expires_at" -> entry.expires
          [] OTHER -> <<>>]

\* Request parameters: e.parameter.email, .code, .site
EmailParams == {<<>>, <<" ">>, <<"U">>}
CodeParams == {<<>>, <<" ", "k">>, <<"z">>}
SiteParams == {<<"s">>}

InitAccess ==
    /\ accessSheet \in {[exists |-> FALSE]} \cup
          {[exists |-> TRUE, header |-> h,
            rows |-> [i \in 1..Len(es) |-> RowCells(h, es[i])]] :
              h \in AccessHeaders, es \in SeqsUpTo(AccessEntries, MaxAccessRows)}
    /\ logSheet \in {[exists |-> FALSE],
                     [exists |-> TRUE, header |-> LOG_COLUMNS, rows |-> <<>>]}
    /\ calls = 0
    /\ lastCall = [served |-> FALSE]

\* ensureSheets(): a missing sheet is inserted with its header row.
ensureAccess(sheet) ==
    IF sheet.exists THEN sheet
    ELSE [exists |-> TRUE, header |-> ACCESS_COLUMNS, rows |-> <<>>]
ensureLog(sheet) ==
    IF sheet.exists THEN sheet
    ELSE [exists |-> TRUE, header |-> LOG_COLUMNS, rows |-> <<>>]

\* data.forEach(row => { if (row[codeIndex] && ...trim() === code) match = row })
\* : the position of the last row whose code matches, or 0.
matchRow(rows, codeIndex, code) ==
    LET hits == {i \in 1..Len(rows) :
                    rows[i][codeIndex + 1] # <<>> /\ trim(rows[i][codeIndex + 1]) = code}
    IN IF hits = {} THEN 0 ELSE CHOOSE i \in hits : \A j \in hits : j <= i

\* status !== 'active' replaced by a test that only rejects an empty status
isActiveUnlessEmpty(cell) == cell # <<>>
\* (match[statusIndex] || '').toString().trim().toLowerCase() === 'active'
isActive(cell) == toLowerCase(trim(cell)) = Active

\* new Date(null) is the epoch: the guard if (expiresRaw) left out
isExpiredWithoutGuard(cell, now) ==
    CASE cell.kind = "empty" -> 0 < now
      [] cell.kind = "text" -> FALSE
      [] OTHER -> cell.t < now
\* if (expiresRaw) { const expiresAt = new Date(expiresRaw);
\*   if (!isNaN(expiresAt.getTime()) && expiresAt.getTime() < Date.now()) ... }
isExpired(cell, now) ==
    /\ cell.kind # "empty"
    /\ cell.kind = "date"
    /\ cell.t < now

\* resolveExpiration(row, expiresIndex)
resolveExpiration(row, expiresIndex, now) ==
    IF expiresIndex = -1 THEN now + Week
    ELSE IF row[expiresIndex + 1].kind = "empty" THEN now + Week
    ELSE IF row[expiresIndex + 1].kind # "date" THEN now + Week
    ELSE row[expiresIndex + 1].t

Respond(ok, message, token, expiresAt) ==
    [ok |-> ok, message |-> message, token |-> token, expiresAt |-> expiresAt]

\* doGet(e) up to its return: the result it logs ("none" when it returns
\* without logging) and the payload it responds with.
doGetOutcome(sheet, email, code, now) ==
    IF email = <<>> \/ code = <<>>
    THEN [result |-> "none", response |-> Respond(FALSE, "Informe email e codigo.", "", NoNum)]
    ELSE LET codeIndex == indexOf(sheet.header, "code")
             statusIndex == indexOf(sheet.header, "status")
             expiresIndex == indexOf(sheet.header, "expires_at")
         IN IF codeIndex = -1 \/ statusIndex = -1
            THEN [result |-> "none",
                  response |-> Respond(FALSE, "Colunas obrigatorias ausentes.", "", NoNum)]
            ELSE LET m == matchRow(sheet.rows, codeIndex, code)
                 IN IF m = 0
                    THEN [result |-> "denied",
                          response |-> Respond(FALSE, "Codigo invalido.", "", NoNum)]
                    ELSE IF ~isActive(sheet.rows[m][statusIndex + 1])
                    THEN [result |-> "blocked",
                          response |-> Respond(FALSE, "Acesso bloqueado.", "", NoNum)]
                    ELSE IF expiresIndex # -1 /\ isExpired(sheet.rows[m][expiresIndex + 1], now)
                    THEN [result |-> "expired",
                          response |-> Respond(FALSE, "Codigo expirado.", "", NoNum)]
                    ELSE [result |-> "granted",
                          response |-> Respond(TRUE, "", "uuid",
                              Num(resolveExpiration(sheet.rows[m], expiresIndex, now)))]

\* The row with email and site in each other's place
logRowSwapped(now, email, site, code, result) ==
    <<now, site, email, code, result, <<"u", "a">>, <<>>>>
\* sheet.appendRow([new Date().toISOString(), email, site, code, result,
\*                  (Session.getActiveUser() || '').toString(), getClientIp()])
logRow(now, email, site, code, result) ==
    <<now, email, site, code, result, <<"u", "a">>, <<>>>>

\* logAttempt(email, site, code, result): ensureSheets and appendRow inside a
\* try whose catch ignores the error; throws tells whether appendRow threw.
logAttempt(sheet, now, email, site, code, result, throws) ==
    IF throws THEN ensureLog(sheet)
    ELSE [ensureLog(sheet) EXCEPT
            !.rows = Append(@, logRow(now, email, site, code, result))]

\* One call of doGet(e), with the instant Date.now() returns during it.
doGet(params, now, appendThrows) ==
    /\ calls < MaxCalls
    /\ LET email == toLowerCase(trim(params.email))
           code == trim(params.code)
           site == trim(params.site)
           sheet == ensureAccess(accessSheet)
           out == doGetOutcome(sheet, email, code, now)
       IN /\ accessSheet' = sheet
          /\ logSheet' = IF out.result = "none" THEN ensureLog(logSheet)
                         ELSE logAttempt(logSheet, now, email, site, code,
                                         out.result, appendThrows)
          /\ lastCall' = [served |-> TRUE, params |-> params, now |-> now,
                          email |-> email, code |-> code, site |-> site,
                          result |-> out.result, response |-> out.response,
                          appendThrew |-> appendThrows /\ out.result # "none"]
    /\ calls' = calls + 1
    /\ KeepData /\ KeepForecast /\ KeepFilter /\ KeepAgg /\ KeepCsv /\ KeepViews

DoGetStep ==
    \E params \in [email : EmailParams, code : CodeParams, site : SiteParams] :
        \E now \in Times : \E appendThrows \in BOOLEAN :
            doGet(params, now, appendThrows)

NextAccess == DoGetStep

InitAccessSpec == InitAccess /\ IdleData /\ IdleForecast /\ IdleFilter /\ IdleAgg /\ IdleCsv
    /\ IdleViews

SpecAccess == InitAccessSpec /\ [][NextAccess]_vars

\* The cell of column name in row i of the access sheet.
AccessCell(name, i) == accessSheet.rows[i][indexOf(accessSheet.header, name) + 1]
HasColumn(name) == indexOf(accessSheet.header, name) # -1

\* C8: access is released only for status 'active'. A call is answered
\* ok:true (with a token) only if the access sheet has a row whose trimmed
\* code equals the trimmed code supplied, whose status trimmed and
\* lower-cased is 'active', and whose expires_at, when it is a valid date, is
\* not earlier than the time of the request.
C8_OnlyActiveIsGranted ==
    (lastCall.served /\ lastCall.response.ok) =>
        /\ lastCall.response.token # ""
        /\ HasColumn("code") /\ HasColumn("status")
        /\ \E i \in 1..Len(accessSheet.rows) :
              /\ trim(AccessCell("code", i)) = trim(lastCall.params.code)
              /\ toLowerCase(trim(AccessCell("status", i))) = Active
              /\ (HasColumn("expires_at") /\ AccessCell("expires_at", i).kind = "date")
                    => AccessCell("expires_at", i).t >= lastCall.now

\* A granted call: code and status need trimming and lower-casing, and the
\* expiration date is the very instant of the request.
C8_Witness ==
    /\ lastCall.served
    /\ lastCall.response.ok
    /\ lastCall.params.code = <<" ", "k">>
    /\ HasColumn("expires_at")
    /\ Len(accessSheet.rows) = 1
    /\ AccessCell("code", 1) = <<"k", " ">>
    /\ AccessCell("status", 1) = <<" ", "A", "c", "t", "i", "v", "e">>
    /\ AccessCell("expires_at", 1).kind = "date"
    /\ lastCall.now = AccessCell("expires_at", 1).t

\* The last row of the access sheet whose trimmed code is the trimmed code
\* supplied by the last call (0 if there is none).
MatchedRow ==
    LET hits == {i \in 1..Len(accessSheet.rows) :
                    trim(AccessCell("code", i)) = trim(lastCall.params.code)}
    IN IF hits = {} THEN 0 ELSE CHOOSE i \in hits : \A j \in hits : j <= i

\* C9: an empty expires_at means no expiration. A call with a non-empty
\* email whose matched row has status 'active' and an empty expires_at is
\* granted at any time.
C9_EmptyExpiryNeverExpires ==
    ( /\ lastCall.served
      /\ trim(lastCall.params.email) # <<>>
      /\ HasColumn("code") /\ HasColumn("status") /\ HasColumn("expires_at")
      /\ MatchedRow # 0
      /\ toLowerCase(trim(AccessCell("status", MatchedRow))) = Active
      /\ AccessCell("expires_at", MatchedRow) = EmptyCell )
    => (lastCall.response.ok /\ lastCall.result = "granted")

\* Such a call served at the latest instant.
C9_Witness ==
    /\ lastCall.served
    /\ lastCall.response.ok
    /\ HasColumn("expires_at")
    /\ MatchedRow # 0
    /\ AccessCell("expires_at", MatchedRow) = EmptyCell
    /\ \A t \in Times : t <= lastCall.now

LogRows(sheet) == IF sheet.exists THEN sheet.rows ELSE <<>>
LogCell(row, name) == row[indexOf(LOG_COLUMNS, name) + 1]

\* The row describes the call c, column by column, and its result agrees
\* with the response of c.
RowDescribes(row, c) ==
    /\ Len(row) = Len(LOG_COLUMNS)
    /\ LogCell(row, "timestamp") = c.now
    /\ LogCell(row, "email") = c.email
    /\ LogCell(row, "site") = c.site
    /\ LogCell(row, "code") = c.code
    /\ LogCell(row, "result") \in {"denied", "blocked", "expired", "granted"}
    /\ (c.response.ok <=> LogCell(row, "result") = "granted")

\* The call that led to the next state supplied an email and a code and found
\* the code and status columns.
AttemptMade ==
    /\ lastCall'.email # <<>>
    /\ lastCall'.code # <<>>
    /\ indexOf(accessSheet'.header, "code") # -1
    /\ indexOf(accessSheet'.header, "status") # -1

\* C10 as stated: every call that supplies an email and a code (the access
\* sheet having the code and status columns) appends exactly one row to the
\* log sheet, in the column order of LOG_COLUMNS, whose result agrees with
\* the response; a call rejected for a missing email or code appends none.
C10_EveryAttemptLogged ==
    [][ IF AttemptMade
        THEN /\ Len(LogRows(logSheet')) = Len(LogRows(logSheet)) + 1
             /\ SubSeq(LogRows(logSheet'), 1, Len(LogRows(logSheet))) = LogRows(logSheet)
             /\ RowDescribes(LogRows(logSheet')[Len(LogRows(logSheet'))], lastCall')
        ELSE LogRows(logSheet') = LogRows(logSheet) ]_vars

\* C10 amended: such a call appends exactly one row unless appendRow throws,
\* in which case logAttempt swallows the error and no row is appended; the
\* response is ok:true exactly when the result of the attempt is granted.
C10_AttemptLoggedUnlessAppendThrows ==
    [][ IF AttemptMade
        THEN /\ lastCall'.result \in {"denied", "blocked", "expired", "granted"}
             /\ (lastCall'.response.ok <=> lastCall'.result = "granted")
             /\ IF lastCall'.appendThrew
                THEN LogRows(logSheet') = LogRows(logSheet)
                ELSE /\ Len(LogRows(logSheet')) = Len(LogRows(logSheet)) + 1
                     /\ SubSeq(LogRows(logSheet'), 1, Len(LogRows(logSheet)))
                           = LogRows(logSheet)
                     /\ RowDescribes(LogRows(logSheet')[Len(LogRows(logSheet'))],
                                     lastCall')
                     /\ LogCell(LogRows(logSheet')[Len(LogRows(logSheet'))], "result")
                           = lastCall'.result
        ELSE LogRows(logSheet') = LogRows(logSheet) ]_vars

\* An expired code was refused and the refusal is in the log.
C10_Witness ==
    /\ lastCall.served
    /\ lastCall.result = "expired"
    /\ ~lastCall.appendThrew
    /\ Len(LogRows(logSheet)) = calls
    /\ LogCell(logSheet.rows[Len(logSheet.rows)], "result") = "expired"
    /\ LogCell(logSheet.rows[Len(logSheet.rows)], "email") = <<"u">>

=============================================================================
